---- MODULE Spec2Model ----
(***************************************************************************)
(* Fermenter control panel (NEW_GUI_VFINAL.py): per-vessel thermal         *)
(* hysteresis control with manual override, calendar-driven setpoint and   *)
(* dosing scheduler, dosing timer, dosing event history, and the CSV sinks  *)
(* (per-vessel files and the global backups) the control tick writes to.   *)
(*                                                                         *)
(* Units: temperatures, setpoints and bands are integers in hundredths of  *)
(* a degree Celsius (20.0 C = 2000, band 0.05 C = 5); instants are whole   *)
(* seconds since 00:00:00 of day 0; dosing values are whole seconds.       *)
(* Texts (time_of_day, HH:MM renderings) are sequences of one-character    *)
(* strings, compared the way Python compares str values.                   *)
(* The flow channels are sampled by the same tick: voltages are integers   *)
(* in microvolts, shunts in tenths of an ohm, currents in hundredths of a  *)
(* milliampere, flows in 1/1600 sccm (exact for every current and range of *)
(* the model). The hardware layer is its simulator flags and the counts of *)
(* what it printed and of the calls that reached the bus.                  *)
(***************************************************************************)
EXTENDS Integers, Sequences, FiniteSets, TLC

\* ------------------------------------------------------------------------
\* Bounds of the model
\* ------------------------------------------------------------------------
\* Longest list of events a calendar holds on one date.
MaxEvents == 2
\* Latest instant the clock reaches in the control specifications, in seconds
\* after StartClock.
MaxElapsed == 90
\* Seconds between two instants at which the model looks at the clock.
PassStep == 30
\* Control ticks in one behaviour (every tick appends to the global backup).
MaxTicks == 3

\* ------------------------------------------------------------------------
\* Time and text
\* ------------------------------------------------------------------------
SecPerMin == 60
MinPerHour == 60
HoursPerDay == 24
SecPerDay == SecPerMin * MinPerHour * HoursPerDay

\* The element of a one-element set: The({F(x) : x \in {e}}) is F(e) with e
\* evaluated once, the way a Python local variable holds a value.
The(S) == CHOOSE x \in S : TRUE

\* Optional values: None is the empty sequence, a present value x is <<x>>.
None == <<>>
Some(x) == <<x>>

DigitChars == <<"0", "1", "2", "3", "4", "5", "6", "7", "8", "9">>
Colon == ":"
\* Code point of a character (ASCII: "0".."9" are 48..57, ":" is 58).
Ord(ch) ==
  IF ch = Colon THEN 58
  ELSE 47 + (CHOOSE i \in 1..10 : DigitChars[i] = ch)

\* Python str comparison a <= b: by code point, a proper prefix is smaller.
RECURSIVE str_le(_, _)
str_le(a, b) ==
  IF a = <<>> THEN TRUE
  ELSE IF b = <<>> THEN FALSE
  ELSE IF Ord(Head(a)) < Ord(Head(b)) THEN TRUE
  ELSE IF Ord(Head(a)) > Ord(Head(b)) THEN FALSE
  ELSE str_le(Tail(a), Tail(b))

\* "%02d"
Pad2(n) == <<DigitChars[(n \div 10) + 1], DigitChars[(n % 10) + 1]>>
\* str(n) for 0 <= n <= 99
Str(n) == IF n < 10 THEN <<DigitChars[n + 1]>> ELSE Pad2(n)

\* t.date() rendered by ymd(): the day number stands for the "%Y-%m-%d" key
\* (calendar keys are only ever produced by ymd, on both sides of a lookup).
ymd(ts) == ts \div SecPerDay
HourOf(ts) == (ts % SecPerDay) \div (SecPerMin * MinPerHour)
MinuteOf(ts) == (ts % (SecPerMin * MinPerHour)) \div SecPerMin
\* t.strftime("%H:%M")
strftime_HM(ts) == Pad2(HourOf(ts)) \o <<Colon>> \o Pad2(MinuteOf(ts))
\* t.strftime("%Y-%m-%d %H:%M")
strftime_YmdHM(ts) == <<ymd(ts)>> \o strftime_HM(ts)

\* int(s) for a text of decimal digits
IsDigits(s) == s # <<>> /\ \A i \in DOMAIN s : s[i] # Colon
RECURSIVE ParseInt(_)
ParseInt(s) ==
  IF s = <<>> THEN 0
  ELSE 10 * ParseInt(SubSeq(s, 1, Len(s) - 1)) + (Ord(s[Len(s)]) - 48)

hhmm_ok(s) ==
  LET colons == {i \in DOMAIN s : s[i] = Colon}
  IN  /\ Cardinality(colons) = 1
      /\ LET k == CHOOSE i \in colons : TRUE
             h == SubSeq(s, 1, k - 1)
             m == SubSeq(s, k + 1, Len(s))
         IN  /\ IsDigits(h)
             /\ IsDigits(m)
             /\ ParseInt(h) \in 0..23
             /\ ParseInt(m) \in 0..59

\* ------------------------------------------------------------------------
\* Calendar queries
\* ------------------------------------------------------------------------
\* A calendar maps a date to the list of its events [time, value]; a date
\* without a key has the empty list (events_dict.get(key, [])).

\* events_dict.get(key, [])
dict_get(events_dict, key) ==
  IF key \in DOMAIN events_dict THEN events_dict[key] ELSE <<>>

\* [e for e in flist if pred(e)]
RECURSIVE SelectEvents(_, _)
SelectEvents(flist, hhmm_now) ==
  IF flist = <<>> THEN <<>>
  ELSE IF str_le(Head(flist).time, hhmm_now)
       THEN <<Head(flist)>> \o SelectEvents(Tail(flist), hhmm_now)
       ELSE SelectEvents(Tail(flist), hhmm_now)

\* sorted(todays, key=lambda e: e["time"]): stable, so equal keys keep order.
RECURSIVE InsertByTime(_, _)
InsertByTime(e, sortedlist) ==
  IF sortedlist = <<>> THEN <<e>>
  ELSE IF str_le(Head(sortedlist).time, e.time)
       THEN <<Head(sortedlist)>> \o InsertByTime(e, Tail(sortedlist))
       ELSE <<e>> \o sortedlist
RECURSIVE SortedByTime(_)
SortedByTime(flist) ==
  IF flist = <<>> THEN <<>>
  ELSE InsertByTime(flist[Len(flist)], SortedByTime(SubSeq(flist, 1, Len(flist) - 1)))

\* A plausible bug: strict comparison drops the event scheduled for this minute.
RECURSIVE SelectEventsStrict(_, _)
SelectEventsStrict(flist, hhmm_now) ==
  IF flist = <<>> THEN <<>>
  ELSE IF str_le(Head(flist).time, hhmm_now) /\ Head(flist).time # hhmm_now
       THEN <<Head(flist)>> \o SelectEventsStrict(Tail(flist), hhmm_now)
       ELSE SelectEventsStrict(Tail(flist), hhmm_now)
sp_from_date_calendar_strict(events_dict, ts) ==
  LET flist == dict_get(events_dict, ymd(ts))
      todays == SelectEventsStrict(flist, strftime_HM(ts))
  IN  IF flist = <<>> THEN None
      ELSE IF todays = <<>> THEN None
      ELSE Some(SortedByTime(todays)[Len(todays)].value)

\* A plausible bug: with nothing applicable today, yesterday's last event
\* carries forward.
sp_from_date_calendar_carry(events_dict, ts) ==
  LET flist == dict_get(events_dict, ymd(ts))
      todays == SelectEvents(flist, strftime_HM(ts))
      prev == IF ymd(ts) - 1 \in DOMAIN events_dict
              THEN SortedByTime(events_dict[ymd(ts) - 1]) ELSE <<>>
  IN  IF todays # <<>> THEN Some(SortedByTime(todays)[Len(todays)].value)
      ELSE IF prev # <<>> THEN Some(prev[Len(prev)].value)
      ELSE None

\* Returns None for "no change", Some(value) otherwise.
sp_from_date_calendar(events_dict, ts) ==
  LET flist == dict_get(events_dict, ymd(ts))
      todays == SelectEvents(flist, strftime_HM(ts))
  IN  IF flist = <<>> THEN None
      ELSE IF todays = <<>> THEN None
      ELSE Some(SortedByTime(todays)[Len(todays)].value)

\* [e.get("value") for e in flist if e.get("time") == hhmm_now]
RECURSIVE FireList(_, _)
FireList(flist, hhmm_now) ==
  IF flist = <<>> THEN <<>>
  ELSE IF Head(flist).time = hhmm_now
       THEN <<Head(flist).value>> \o FireList(Tail(flist), hhmm_now)
       ELSE FireList(Tail(flist), hhmm_now)
nut_fire_for_minute(events_dict, ts) ==
  FireList(dict_get(events_dict, ymd(ts)), strftime_HM(ts))

\* ------------------------------------------------------------------------
\* State
\* ------------------------------------------------------------------------
\* The three panels built by App.__init__.
Ferms == {"F1", "F2", "F3"}
\* The dates the model's calendars cover.
Dates == {0, 1}

VARIABLES
  ferm,      \* the LightFermenterPanel objects, by name
  clock,     \* what now() returns
  dlg_data,  \* DateCalendarDialog.data of the dialog being edited
  q_res,     \* result of the latest setpoint lookup on dlg_data, if still current
  op,        \* history: the handler that ran last
  app,       \* the App object: nutrition samples and CO2 sink states
  disk       \* the files, by path: None (absent) or Some(lines)

vars == <<ferm, clock, dlg_data, q_res, op, app, disk>>

EmptyCal == [d \in Dates |-> <<>>]
InitTemp == 2150
InitSp == 2000
InitBand == 50
MinBand == 5
\* Pump frequencies are integers in tenths of a hertz.
InitFreq == 10000
MinFreq == 0

\* LightFermenterPanel.__init__
NewPanel ==
  [ t |-> InitTemp, sp |-> InitSp, band |-> InitBand,
    manual_mode |-> FALSE, cold_in |-> FALSE, hot_in |-> FALSE,
    cal_sp |-> EmptyCal, cal_nut |-> EmptyCal,
    nut_running_until |-> None, nut_led_on |-> FALSE, last_min |-> None,
    manual_nut_on |-> FALSE, freq_nut |-> InitFreq,
    csv_running |-> FALSE, csv_paused |-> FALSE,
    \* history: the minute of the latest calendar dosing fire and the number
    \* of fires counted in that minute (counting stops at 2)
    fire_min |-> None, fire_n |-> 0,
    \* history: changes of the pump-active flag since the latest tick recorded
    \* it (counting stops at 2)
    led_flips |-> 0 ]

\* Hardware.__init__ with SIMULADOR set: every hardware call returns at its
\* first line.
NewHardware ==
  [ sim |-> TRUE, sim_gpio |-> TRUE, last_temp_error |-> FALSE,
    \* history: failed temperature reads since the latest successful one and
    \* the degradation messages printed for them (counting stops at 2)
    temp_fails |-> 0, temp_logs |-> 0,
    \* history: the "GPIO fallback" messages printed (counting stops at 2) and
    \* the calls that reached the GPIO bus in the latest handler
    gpio_logs |-> 0, bus_calls |-> 0,
    \* the outputs: the latest command that reached each relay (TRUE: on) and
    \* whether the pump's PWM is started; setup_relay switches a relay off
    out |-> [c \in Ferms |-> [cold |-> FALSE, hot |-> FALSE, pump |-> FALSE]] ]

\* App.__init__: the in-memory histories, the CO2 sinks' states, the flow
\* channels and the hardware layer.
NewApp ==
  [ nut_samples |-> [c \in Ferms |-> <<>>],
    nut_last_state |-> [c \in Ferms |-> None],
    co2_csv_running |-> [c \in Ferms |-> FALSE],
    co2_csv_paused |-> [c \in Ferms |-> FALSE],
    flow_samples |-> [c \in Ferms |-> <<>>],
    flow_next_sample |-> [c \in Ferms |-> None],
    \* period = 1 if reader.sim else 10 (SAMPLE_PERIOD_SEC is not set)
    flow_sample_period |-> [c \in Ferms |-> 1],
    \* history: the channels whose voltage read failed in the latest tick
    flow_failed |-> {},
    \* history of the latest tick: the panels whose update_process was called,
    \* whether _flow_tick was called, and what it met: the outcomes of its
    \* writes, the panels whose temperature read failed, the GPIO call of each
    \* panel that raised
    ran |-> {}, flow_ran |-> FALSE,
    met |-> [w |-> [c \in Ferms |-> "ok"], wf |-> [c \in Ferms |-> "ok"],
             read_fails |-> {}, bus |-> [c \in Ferms |-> 0]],
    hw |-> NewHardware,
    \* _tick_job: TRUE while a call of _tick is scheduled
    tick_job |-> TRUE,
    \* the module's FLOW_MIN_SCCM and FLOW_MAX_SCCM, read from the environment
    FLOW_MIN_SCCM |-> 0, FLOW_MAX_SCCM |-> 50,
    \* history: 1 in the first run of the process, 2 after it was started again
    run |-> 1,
    \* history: the global stop-all has run and no operator handler since
    stopped |-> FALSE,
    \* _closing, and history: None until on_close releases the hardware
    \* handles, then what was switched on and the outputs at that moment
    closing |-> FALSE, released |-> None ]

\* ------------------------------------------------------------------------
\* Files: a path is <<directory, file name>>, a file's content its lines
\* ------------------------------------------------------------------------
Dirs == {"Proceso", "Backup", "Export"}
CsvName(name) == <<"Temp", name>>
Co2CsvName(name) == <<"CO2", name>>
BackupName == <<"backup_global_temperatura", "-">>
Co2BackupName == <<"backup_global_co2", "-">>
Names ==
  {CsvName(c) : c \in Ferms} \cup {Co2CsvName(c) : c \in Ferms}
    \cup {BackupName, Co2BackupName}
Paths == Dirs \X Names
\* os.path.join(directory, file name)
Join(dir, base) == <<dir, base>>
Basename(path) == path[2]

_csv_path(name) == Join("Proceso", CsvName(name))
_co2_csv_path(name) == Join("Proceso", Co2CsvName(name))
get_backup_path == Join("Backup", BackupName)
get_co2_backup_path == Join("Backup", Co2BackupName)

\* The lines of the CSV files: the header line or the row of one channel.
\* csv.DictWriter ends every line it writes with "\r\n" (the files are opened
\* with newline="", which writes it as it is).
CRLF == "CRLF"
LF == "LF"
Header == [kind |-> "header", fermentador |-> "-", eol |-> CRLF]
Row(name) == [kind |-> "row", fermentador |-> name, eol |-> CRLF]

EmptyDisk == [p \in Paths |-> None]
exists(d, path) == d[path] # None
getsize(d, path) == Len(d[path][1])
\* open(path, "a"), then writeheader() if asked, then writerow(row)
AppendRow(d, path, header, row) ==
  [d EXCEPT ![path] =
     Some((IF @ = None THEN <<>> ELSE @[1])
            \o (IF header THEN <<Header>> ELSE <<>>) \o <<row>>)]

\* ------------------------------------------------------------------------
\* Operator handlers of one panel (f is the panel, the result the panel after)
\* ------------------------------------------------------------------------
\* A plausible bug: forcing is allowed in automatic mode too.
_can_force_always(f) == TRUE
_can_force(f) == f.manual_mode

\* A plausible bug: forcing cold forgets to release the hot actuator.
forzar_frio_keep_hot(f) ==
  IF ~_can_force(f) THEN f ELSE [f EXCEPT !.cold_in = TRUE]
forzar_frio(f) ==
  IF ~_can_force(f) THEN f
  ELSE [f EXCEPT !.cold_in = TRUE, !.hot_in = FALSE]

forzar_caliente(f) ==
  IF ~_can_force(f) THEN f
  ELSE [f EXCEPT !.hot_in = TRUE, !.cold_in = FALSE]

cerrar_todo(f) == [f EXCEPT !.cold_in = FALSE, !.hot_in = FALSE]

\* self._apply_nutricion_state(should_run): the pump indicator follows should_run
_apply_nutricion_state(f, should_run) ==
  [f EXCEPT !.nut_led_on = should_run,
            !.led_flips = IF f.nut_led_on = should_run THEN @
                          ELSE (IF @ < 2 THEN @ + 1 ELSE 2)]

\* A plausible bug: stop_all closes the valves but leaves the dosing state.
stop_all_valves_only(f) ==
  [f EXCEPT !.manual_mode = TRUE, !.cold_in = FALSE, !.hot_in = FALSE]
stop_all(f) ==
  _apply_nutricion_state(
    [f EXCEPT !.manual_mode = TRUE, !.cold_in = FALSE, !.hot_in = FALSE,
              !.nut_running_until = None, !.manual_nut_on = FALSE],
    FALSE)

\* A plausible bug: the pump follows the manual toggle alone.
toggle_manual_nut_alone(f, tnow) ==
  _apply_nutricion_state([f EXCEPT !.manual_nut_on = ~f.manual_nut_on],
                         ~f.manual_nut_on)
toggle_manual_nut(f, tnow) ==
  LET g == [f EXCEPT !.manual_nut_on = ~f.manual_nut_on]
      schedule_active ==
        g.nut_running_until # None /\ tnow < g.nut_running_until[1]
  IN  _apply_nutricion_state(g, schedule_active \/ g.manual_nut_on)

\* An entry text is empty, not a number, or a number (val, in the model's units).
Entry(kind, val) == [kind |-> kind, val |-> val]
\* Returns None when the entry is rejected, Some(value) otherwise;
\* min_val is None or Some(minimum). (First: a plausible bug, the minimum is
\* not checked.)
_apply_entry_float_no_min(raw, min_val) ==
  IF raw.kind # "num" THEN None ELSE Some(raw.val)
_apply_entry_float(raw, min_val) ==
  IF raw.kind = "empty" THEN None
  ELSE IF raw.kind # "num" THEN None
  ELSE IF min_val # None /\ raw.val < min_val[1] THEN None
  ELSE Some(raw.val)

apply_sp(f, raw) ==
  LET value == _apply_entry_float(raw, None)
  IN  IF value = None THEN f ELSE [f EXCEPT !.sp = value[1]]

apply_band(f, raw) ==
  LET value == _apply_entry_float(raw, Some(MinBand))
  IN  IF value = None THEN f ELSE [f EXCEPT !.band = value[1]]

apply_freq(f, raw) ==
  LET value == _apply_entry_float(raw, Some(MinFreq))
  IN  IF value = None THEN f ELSE [f EXCEPT !.freq_nut = value[1]]

\* ------------------------------------------------------------------------
\* The sinks: per-channel CSV files and the global backups
\* ------------------------------------------------------------------------
csv_start(f) == [f EXCEPT !.csv_running = TRUE, !.csv_paused = FALSE]

csv_pause(f) == [f EXCEPT !.csv_running = FALSE, !.csv_paused = TRUE]

\* csv_restart: the panel after, and the files after (os.remove if it exists).
csv_restart(f) == [f EXCEPT !.csv_running = FALSE, !.csv_paused = FALSE]
\* A plausible bug: restart removes the global backup as well.
csv_restart_files_all(d, name) ==
  [d EXCEPT ![_csv_path(name)] = None, ![get_backup_path] = None]
csv_restart_files(d, name) ==
  IF exists(d, _csv_path(name)) THEN [d EXCEPT ![_csv_path(name)] = None] ELSE d

\* fsrc.read() of a file opened in text mode with the default newline: every
\* "\r\n" is read as "\n".
read_text(lines) == [i \in DOMAIN lines |-> [lines[i] EXCEPT !.eol = LF]]

\* The copy both export handlers make from src into directory dst_dir:
\* open(src, "r"), open(dst, "w", newline="") - which creates or truncates
\* dst - and then fdst.write(fsrc.read()).
export_copy(d, src, dst_dir) ==
  LET dst == Join(dst_dir, Basename(src))
      opened == [d EXCEPT ![dst] = Some(<<>>)]
  IN  [opened EXCEPT ![dst] = Some(read_text(opened[src][1]))]

\* csv_export into directory dst_dir ("" when the operator cancels the
\* dialog): the files after.
csv_export_files(f, d, name, dst_dir) ==
  LET src == _csv_path(name)
  IN  IF f.csv_running THEN d
      ELSE IF ~exists(d, src) THEN d
      ELSE IF dst_dir = "" THEN d
      ELSE export_copy(d, src, dst_dir)

\* A plausible bug: the per-channel sink is written whatever its state.
_csv_write_row_always(f, d, name) ==
  LET ipath == _csv_path(name)
      d1 == AppendRow(d, ipath, ~exists(d, ipath), Row(name))
      bpath == get_backup_path
  IN  AppendRow(d1, bpath, ~exists(d1, bpath) \/ getsize(d1, bpath) = 0, Row(name))
\* A plausible bug: the backup's header is written on every write.
_csv_write_row_header_always(f, d, name) ==
  LET ipath == _csv_path(name)
      d1 == IF f.csv_running
            THEN AppendRow(d, ipath, ~exists(d, ipath), Row(name)) ELSE d
  IN  AppendRow(d1, get_backup_path, TRUE, Row(name))
\* _csv_write_row of panel f named name: the files after.
_csv_write_row(f, d, name) ==
  LET row == Row(name)
      ipath == _csv_path(name)
      cabe == ~exists(d, ipath)
      d1 == IF f.csv_running THEN AppendRow(d, ipath, cabe, row) ELSE d
      bpath == get_backup_path
      write_header == ~exists(d1, bpath) \/ getsize(d1, bpath) = 0
  IN  AppendRow(d1, bpath, write_header, row)

co2_csv_start(a, fermenter) ==
  [a EXCEPT !.co2_csv_running[fermenter] = TRUE,
            !.co2_csv_paused[fermenter] = FALSE]
co2_csv_pause(a, fermenter) ==
  [a EXCEPT !.co2_csv_running[fermenter] = FALSE,
            !.co2_csv_paused[fermenter] = TRUE]
co2_csv_restart(a, fermenter) ==
  [a EXCEPT !.co2_csv_running[fermenter] = FALSE,
            !.co2_csv_paused[fermenter] = FALSE]
co2_csv_restart_files(d, fermenter) ==
  IF exists(d, _co2_csv_path(fermenter))
  THEN [d EXCEPT ![_co2_csv_path(fermenter)] = None] ELSE d
\* co2_csv_export into directory dst_dir: the files after.
co2_csv_export_files(a, d, fermenter, dst_dir) ==
  LET src == _co2_csv_path(fermenter)
  IN  IF a.co2_csv_running[fermenter] THEN d
      ELSE IF ~exists(d, src) THEN d
      ELSE IF dst_dir = "" THEN d
      ELSE export_copy(d, src, dst_dir)

\* ts.strftime("%Y-%m-%d %H:%M:%S"): date, hour, minute, second.
strftime_YmdHMS(ts) == <<ymd(ts), HourOf(ts), MinuteOf(ts), ts % SecPerMin>>
\* f"{flow:.4f}" of a flow counted in 1/1600 sccm: ten-thousandths of a sccm.
FormatFlow(flow) == (flow * 25 + 2) \div 4
\* f"{current_ma:.4f}" of a current counted in hundredths of a mA.
FormatCurrent(current_ma) == current_ma * 100
\* f"{voltage:.4f}" of a voltage counted in microvolts: tenths of a millivolt.
FormatVoltage(voltage) == (voltage + 50) \div 100

\* _co2_csv_write_row and _co2_backup_write_row: the files after.
_co2_csv_write_row(a, d, fermenter, ts, flow, current_ma, voltage, status) ==
  IF ~a.co2_csv_running[fermenter] THEN d
  ELSE LET row == [kind |-> "row", fermentador |-> fermenter, eol |-> CRLF,
                   timestamp |-> strftime_YmdHMS(ts),
                   flow_sccm |-> FormatFlow(flow), status |-> status]
           ipath == _co2_csv_path(fermenter)
           header == ~exists(d, ipath)
       IN  AppendRow(d, ipath, header, row)
_co2_backup_write_row(d, fermenter, ts, flow, current_ma, voltage, status) ==
  LET path == get_co2_backup_path
      row == [kind |-> "row", fermentador |-> fermenter, eol |-> CRLF,
              timestamp |-> strftime_YmdHMS(ts),
              flow_sccm |-> FormatFlow(flow),
              current_ma |-> FormatCurrent(current_ma),
              voltage |-> FormatVoltage(voltage), status |-> status]
      header == ~exists(d, path) \/ getsize(d, path) = 0
  IN  AppendRow(d, path, header, row)

\* ------------------------------------------------------------------------
\* The nutrition event history
\* ------------------------------------------------------------------------
MAX_FLOW_HISTORY_HOURS == 24 * 21

\* The samples whose timestamp is not before cutoff.
RECURSIVE NotBefore(_, _)
NotBefore(samples, cutoff) ==
  IF samples = <<>> THEN <<>>
  ELSE IF Head(samples)[1] >= cutoff
       THEN <<Head(samples)>> \o NotBefore(Tail(samples), cutoff)
       ELSE NotBefore(Tail(samples), cutoff)

\* A plausible bug: a sample is appended on every tick.
_record_nut_sample_every_tick(a, fermenter, ts, state) ==
  LET state_int == IF state THEN 1 ELSE 0
  IN  [a EXCEPT !.nut_samples[fermenter] = Append(@, <<ts, state_int>>),
                !.nut_last_state[fermenter] = Some(state_int)]
\* App._record_nut_sample: the App object after.
_record_nut_sample(a, fermenter, ts, state) ==
  LET state_int == IF state THEN 1 ELSE 0
      last_state == a.nut_last_state[fermenter]
      a1 == IF last_state = None \/ Some(state_int) # last_state
            THEN [a EXCEPT !.nut_samples[fermenter] = Append(@, <<ts, state_int>>),
                           !.nut_last_state[fermenter] = Some(state_int)]
            ELSE a
      samples == a1.nut_samples[fermenter]
      cutoff == ts - MAX_FLOW_HISTORY_HOURS * 3600
  IN  IF samples = <<>> THEN a1
      ELSE IF samples[1][1] < cutoff
           THEN [a1 EXCEPT !.nut_samples[fermenter] = NotBefore(samples, cutoff)]
           ELSE a1

\* ------------------------------------------------------------------------
\* update_process: one control tick of one panel
\* ------------------------------------------------------------------------
\* A plausible bug: the calendar setpoint is applied in manual override too.
SetpointStepAlways(f, tnow) ==
  LET sp_cal == sp_from_date_calendar(f.cal_sp, tnow)
  IN  IF sp_cal # None THEN [f EXCEPT !.sp = sp_cal[1]] ELSE f
\* A plausible bug: the calendar only sets a setpoint nobody has changed, so
\* a value the operator applied survives the tick.
SetpointStepOperatorWins(f, tnow) ==
  IF f.manual_mode \/ f.sp # InitSp THEN f
  ELSE LET sp_cal == sp_from_date_calendar(f.cal_sp, tnow)
       IN  IF sp_cal # None THEN [f EXCEPT !.sp = sp_cal[1]] ELSE f
\* Calendar setpoint, evaluated only outside manual override.
SetpointStep(f, tnow) ==
  IF f.manual_mode THEN f
  ELSE LET sp_cal == sp_from_date_calendar(f.cal_sp, tnow)
       IN  IF sp_cal # None THEN [f EXCEPT !.sp = sp_cal[1]] ELSE f

\* sum(float(d) for d in doses if float(d) > 0)
RECURSIVE SumPositive(_)
SumPositive(doses) ==
  IF doses = <<>> THEN 0
  ELSE (IF Head(doses) > 0 THEN Head(doses) ELSE 0) + SumPositive(Tail(doses))

\* A plausible bug: a fire extends a deadline that is still in the future.
FireExtend(f, tnow, dur_total) ==
  [f EXCEPT !.nut_running_until =
              IF f.nut_running_until # None /\ tnow < f.nut_running_until[1]
              THEN Some(f.nut_running_until[1] + dur_total)
              ELSE Some(tnow + dur_total),
            !.fire_n = IF f.fire_min = strftime_YmdHM(tnow)
                       THEN (IF f.fire_n < 2 THEN f.fire_n + 1 ELSE 2)
                       ELSE 1,
            !.fire_min = strftime_YmdHM(tnow)]
\* The panel after a calendar fire at tnow lasting dur_total seconds.
Fire(f, tnow, dur_total) ==
  [f EXCEPT !.nut_running_until = Some(tnow + dur_total),
            !.fire_n = IF f.fire_min = strftime_YmdHM(tnow)
                       THEN (IF f.fire_n < 2 THEN f.fire_n + 1 ELSE 2)
                       ELSE 1,
            !.fire_min = strftime_YmdHM(tnow)]

\* A plausible bug: the minute guard is missing, every tick of the minute fires.
DosingFireStepEveryTick(f, tnow) ==
  LET current_min == strftime_YmdHM(tnow)
      doses == nut_fire_for_minute(f.cal_nut, tnow)
      dur_total == SumPositive(doses)
      g == IF doses # <<>> /\ dur_total > 0 THEN Fire(f, tnow, dur_total) ELSE f
  IN  [g EXCEPT !.last_min = current_min]

\* A plausible bug: every value is summed, negative ones included.
RECURSIVE SumAll(_)
SumAll(doses) ==
  IF doses = <<>> THEN 0 ELSE Head(doses) + SumAll(Tail(doses))
DosingFireStepSumAll(f, tnow) ==
  LET current_min == strftime_YmdHM(tnow)
      doses == nut_fire_for_minute(f.cal_nut, tnow)
      dur_total == SumAll(doses)
  IN  IF f.last_min # current_min
      THEN LET g == IF doses # <<>> /\ dur_total > 0
                    THEN Fire(f, tnow, dur_total) ELSE f
           IN  [g EXCEPT !.last_min = current_min]
      ELSE f

\* Dosing events of this minute, looked at once per minute.
DosingFireStep(f, tnow) ==
  LET current_min == strftime_YmdHM(tnow)
      doses == nut_fire_for_minute(f.cal_nut, tnow)
      dur_total == SumPositive(doses)
  IN  IF f.last_min # current_min
      THEN LET g == IF doses # <<>> /\ dur_total > 0
                    THEN Fire(f, tnow, dur_total) ELSE f
           IN  [g EXCEPT !.last_min = current_min]
      ELSE f

\* A plausible bug: an expired deadline is left in place.
DosingStateStepKeep(f, tnow) ==
  LET schedule_active ==
        f.nut_running_until # None /\ tnow < f.nut_running_until[1]
  IN  _apply_nutricion_state(f, schedule_active \/ f.manual_nut_on)
\* A plausible bug: a pump that is running is never stopped by the tick.
DosingStateStepLatch(f, tnow) ==
  LET schedule_active ==
        f.nut_running_until # None /\ tnow < f.nut_running_until[1]
      g == IF schedule_active THEN f ELSE [f EXCEPT !.nut_running_until = None]
  IN  _apply_nutricion_state(g, schedule_active \/ g.manual_nut_on \/ f.nut_led_on)
\* Deadline expiry and the derived pump state.
DosingStateStep(f, tnow) ==
  LET schedule_active ==
        f.nut_running_until # None /\ tnow < f.nut_running_until[1]
      g == IF schedule_active THEN f ELSE [f EXCEPT !.nut_running_until = None]
  IN  _apply_nutricion_state(g, schedule_active \/ g.manual_nut_on)

Max(a, b) == IF a >= b THEN a ELSE b

\* A plausible bug: the hot branch tests the cold threshold, so both turn on.
HysteresisHotOnHigh(f) ==
  LET sp == f.sp
      band == Max(MinBand, f.band)
      cold == IF f.cold_in THEN ~(f.t <= sp - band) ELSE f.t >= sp + band
      hot == IF f.hot_in THEN ~(f.t <= sp - band) ELSE f.t >= sp + band
  IN  [f EXCEPT !.cold_in = cold, !.hot_in = hot]

\* A plausible bug: the thresholds are compared strictly.
HysteresisStrict(f) ==
  LET sp == f.sp
      band == Max(MinBand, f.band)
      cold == IF f.cold_in
              THEN (IF f.t < sp - band THEN FALSE ELSE f.cold_in)
              ELSE (IF f.t > sp + band THEN TRUE ELSE f.cold_in)
      hot == IF f.hot_in
             THEN (IF f.t > sp + band THEN FALSE ELSE f.hot_in)
             ELSE (IF f.t < sp - band THEN TRUE ELSE f.hot_in)
  IN  [f EXCEPT !.cold_in = cold, !.hot_in = hot]

\* A plausible bug: no memory, the actuators follow the sign of the error.
HysteresisNoBand(f) ==
  [f EXCEPT !.cold_in = f.t > f.sp, !.hot_in = f.t < f.sp]

\* The hysteresis rule proper.
HysteresisStep(f) ==
  LET sp == f.sp
      band == Max(MinBand, f.band)
      cold == IF f.cold_in
              THEN (IF f.t <= sp - band THEN FALSE ELSE f.cold_in)
              ELSE (IF f.t >= sp + band THEN TRUE ELSE f.cold_in)
      hot == IF f.hot_in
             THEN (IF f.t >= sp + band THEN FALSE ELSE f.hot_in)
             ELSE (IF f.t <= sp - band THEN TRUE ELSE f.hot_in)
      g == [f EXCEPT !.cold_in = cold, !.hot_in = hot]
  IN  IF ~g.cold_in /\ ~g.hot_in THEN cerrar_todo(g) ELSE g

\* A plausible bug: the manual-override test is missing.
HysteresisAlways(f) == HysteresisStep(f)

\* The hysteresis control, evaluated only outside manual override.
Hysteresis(f) == IF f.manual_mode THEN f ELSE HysteresisStep(f)

\* temp is the temperature this tick measures (sensor read or simulation).
\* The panel after the tick; the tick has recorded the pump-active flag.
update_process(f, tnow, temp) ==
  LET f1 == SetpointStep(f, tnow)
      f2 == DosingFireStep(f1, tnow)
      f3 == DosingStateStep(f2, tnow)
      f4 == [f3 EXCEPT !.t = temp, !.led_flips = 0]
  IN  Hysteresis(f4)

\* The order in which App._tick runs the panels.
FermOrder == <<"F1", "F2", "F3">>

\* ------------------------------------------------------------------------
\* The flow channels: conversion and sampling
\* ------------------------------------------------------------------------
\* Units: a voltage is in microvolts, a shunt in tenths of an ohm, a current
\* in hundredths of a mA, FLOW_MIN_SCCM and FLOW_MAX_SCCM in whole sccm, and a
\* flow in 1/1600 sccm (the interpolation divides by the span of 16.0 mA,
\* 1600 hundredths).
FlowUnit == 1600
SHUNT_OHMS == [c \in Ferms |-> IF c = "F1" THEN 1480
                               ELSE IF c = "F2" THEN 1485 ELSE 1475]
Min(a, b) == IF a <= b THEN a ELSE b

\* (voltage / shunt_ohms) * 1000.0; the model's voltages are whole multiples
\* of the shunt, so the division is exact.
voltage_to_current_ma(voltage, shunt_ohms) == voltage \div shunt_ohms

\* A plausible bug: the current is not clamped before the interpolation.
current_to_flow_sccm_unclamped(current_ma, flow_min, flow_max) ==
  IF flow_max <= flow_min THEN 0
  ELSE flow_min * FlowUnit + (current_ma - 400) * (flow_max - flow_min)
\* current_to_flow_sccm, with the module's FLOW_MIN_SCCM and FLOW_MAX_SCCM as
\* flow_min and flow_max.
current_to_flow_sccm(current_ma, flow_min, flow_max) ==
  IF flow_max <= flow_min THEN 0
  ELSE LET clamped == Max(400, Min(2000, current_ma))
       IN  flow_min * FlowUnit + (clamped - 400) * (flow_max - flow_min)

\* A plausible bug: the status is classified from the clamped current.
flow_status_clamped(current_ma) ==
  LET clamped == Max(400, Min(2000, current_ma))
  IN  IF clamped < 380 THEN "Bajo rango"
      ELSE IF clamped > 2050 THEN "Alto rango" ELSE "OK"
\* The status of a sample, from its current.
flow_status(current_ma) ==
  IF current_ma < 380 THEN "Bajo rango"
  ELSE IF current_ma > 2050 THEN "Alto rango" ELSE "OK"

\* What the environment does to the two writes of one record: nothing, open()
\* of the per-channel file fails, open() of the global backup fails, or the
\* backup's directory cannot be created.
WriteOutcomes == {"ok", "csv_open_fails", "backup_open_fails", "backup_dir_fails"}

\* A plausible bug: a failed read is not rescheduled.
FlowReadFailedNoReschedule(a, fermenter, ts) ==
  [a EXCEPT !.flow_failed = @ \cup {fermenter}]
\* _flow_take_sample when read_voltage raises: the App object after.
FlowReadFailed(a, fermenter, ts) ==
  [a EXCEPT !.flow_next_sample[fermenter] =
              Some(ts + a.flow_sample_period[fermenter]),
            !.flow_failed = @ \cup {fermenter}]

\* A plausible bug: the history is never pruned.
PruneKeepAll(samples, cutoff) == samples
\* [row for row in samples if row[0] >= cutoff]
Prune(samples, cutoff) == NotBefore(samples, cutoff)

\* _flow_take_sample at ts: reading is None when read_voltage raises and
\* Some(voltage) otherwise, w the outcome of the writes. The result is the App
\* object and the files after, and whether an exception left the function.
_flow_take_sample(a, d, fermenter, ts, reading, w) ==
  IF reading = None
  THEN [app |-> FlowReadFailed(a, fermenter, ts), disk |-> d, raised |-> FALSE]
  ELSE LET voltage == reading[1]
           current_ma == voltage_to_current_ma(voltage, SHUNT_OHMS[fermenter])
           flow == current_to_flow_sccm(current_ma, a.FLOW_MIN_SCCM, a.FLOW_MAX_SCCM)
           status == flow_status(current_ma)
           samples == Append(a.flow_samples[fermenter],
                             <<ts, flow, current_ma, voltage, status>>)
           cutoff == ts - MAX_FLOW_HISTORY_HOURS * 3600
           a1 == [a EXCEPT !.flow_samples[fermenter] = Prune(samples, cutoff)]
           d1 == IF w = "csv_open_fails" THEN d
                 ELSE _co2_csv_write_row(a1, d, fermenter, ts, flow, current_ma,
                                         voltage, status)
           d2 == IF w = "backup_open_fails" THEN d1
                 ELSE _co2_backup_write_row(d1, fermenter, ts, flow, current_ma,
                                            voltage, status)
       IN  IF w = "backup_dir_fails"
           THEN [app |-> a1, disk |-> d1, raised |-> TRUE]
           ELSE [app |-> [a1 EXCEPT !.flow_next_sample[fermenter] =
                                      Some(ts + a.flow_sample_period[fermenter])],
                 disk |-> d2, raised |-> FALSE]

\* A plausible bug: every channel is sampled on every tick.
FlowDueAlways(a, name, ts) == TRUE
\* next_ts is None or ts >= next_ts
FlowDue(a, name, ts) ==
  LET next_ts == a.flow_next_sample[name]
  IN  next_ts = None \/ ts >= next_ts[1]

\* _flow_tick at ts over the channels in order, from st = [app, disk, raised];
\* readings[name] and w[name] are what channel name meets if it is sampled.
RECURSIVE _flow_tick(_, _, _, _, _)
_flow_tick(order, st, ts, readings, w) ==
  IF order = <<>> \/ st.raised THEN st
  ELSE LET name == Head(order)
       IN  The({ _flow_tick(Tail(order), st1, ts, readings, w) :
                   st1 \in { IF FlowDue(st.app, name, ts)
                             THEN _flow_take_sample(st.app, st.disk, name, ts,
                                                    readings[name], w[name])
                             ELSE st } })

\* ------------------------------------------------------------------------
\* The hardware layer
\* ------------------------------------------------------------------------
\* A plausible bug: a failed call leaves the GPIO enabled.
_gpio_fallback_forgets(hw) ==
  [hw EXCEPT !.gpio_logs = IF @ < 2 THEN @ + 1 ELSE 2]
\* Hardware._gpio_fallback
_gpio_fallback(hw) ==
  IF hw.sim_gpio THEN hw
  ELSE [hw EXCEPT !.sim_gpio = TRUE, !.gpio_logs = IF @ < 2 THEN @ + 1 ELSE 2]

\* One call of relay_on, relay_off, start_stepper or stop_stepper; fails says
\* whether the GPIO call inside raises.
gpio_call(hw, fails) ==
  IF hw.sim \/ hw.sim_gpio THEN hw
  ELSE IF fails THEN _gpio_fallback(hw)
  ELSE [hw EXCEPT !.bus_calls = IF @ < 2 THEN @ + 1 ELSE 2]

\* A command to panel c's outputs is <<"cold" | "hot", on>> for relay_on and
\* relay_off and <<"pump", on>> for start_stepper and stop_stepper. (First: a
\* plausible bug, the relays are driven with the opposite level.)
gpio_cmd_inverted(hw, c, cmd, fails) ==
  IF hw.sim \/ hw.sim_gpio \/ fails THEN gpio_call(hw, fails)
  ELSE [gpio_call(hw, FALSE) EXCEPT
          !.out[c][cmd[1]] = IF cmd[1] = "pump" THEN cmd[2] ELSE ~cmd[2]]
gpio_cmd(hw, c, cmd, fails) ==
  IF hw.sim \/ hw.sim_gpio \/ fails THEN gpio_call(hw, fails)
  ELSE [gpio_call(hw, FALSE) EXCEPT !.out[c][cmd[1]] = cmd[2]]

\* The commands cmds in a row, of which number fail_at raises if it reaches
\* the bus (0: none does).
RECURSIVE gpio_cmds(_, _, _, _)
gpio_cmds(hw, c, cmds, fail_at) ==
  IF cmds = <<>> THEN hw
  ELSE The({ gpio_cmds(h, c, Tail(cmds), fail_at - 1) :
               h \in {gpio_cmd(hw, c, Head(cmds), fail_at = 1)} })

\* The commands of _apply_relays in panel f.
_apply_relays_cmds(f) == << <<"cold", f.cold_in>>, <<"hot", f.hot_in>> >>
\* The commands of _apply_nutricion_state(should_run) in panel f.
_apply_nutricion_state_cmds(f, should_run) ==
  IF should_run /\ ~f.nut_led_on THEN << <<"pump", TRUE>> >>
  ELSE IF ~should_run /\ f.nut_led_on THEN << <<"pump", FALSE>> >>
  ELSE <<>>
\* The commands of the operator's handlers in panel f.
forzar_cmds(f, g) == IF _can_force(f) THEN _apply_relays_cmds(g) ELSE <<>>
stop_all_cmds(f) ==
  _apply_nutricion_state_cmds(f, FALSE) \o _apply_relays_cmds(stop_all(f))
toggle_manual_nut_cmds(f, tnow) ==
  LET g == [f EXCEPT !.manual_nut_on = ~f.manual_nut_on]
      schedule_active ==
        g.nut_running_until # None /\ tnow < g.nut_running_until[1]
  IN  _apply_nutricion_state_cmds(f, schedule_active \/ g.manual_nut_on)

\* Hardware.read_temp_ds18b20: reading is None when the sensor file cannot be
\* read and Some(temperature) otherwise (in simulator mode: the simulated
\* temperature). The finally clause clears _last_temp_error on every path.
read_temp_ds18b20(hw, reading) ==
  IF hw.sim THEN [hw |-> hw, value |-> reading[1]]
  ELSE IF reading # None
  THEN [hw |-> [hw EXCEPT !.last_temp_error = FALSE,
                          !.temp_fails = 0, !.temp_logs = 0],
        value |-> reading[1]]
  ELSE [hw |-> [hw EXCEPT !.last_temp_error = FALSE,
                          !.temp_fails = IF @ < 2 THEN @ + 1 ELSE 2,
                          !.temp_logs = IF hw.last_temp_error THEN @
                                        ELSE (IF @ < 2 THEN @ + 1 ELSE 2)],
        value |-> 2000]

\* The commands update_process issues for panel f: start_stepper at a
\* calendar fire, the stepper command of _apply_nutricion_state, and outside
\* manual override _apply_relays (twice when both actuators end off, once in
\* cerrar_todo).
update_process_cmds(f, tnow, temp) ==
  LET f1 == SetpointStep(f, tnow)
      f2 == DosingFireStep(f1, tnow)
      g == update_process(f, tnow, temp)
      schedule_active ==
        f2.nut_running_until # None /\ tnow < f2.nut_running_until[1]
  IN  (IF <<f2.fire_min, f2.fire_n>> # <<f1.fire_min, f1.fire_n>>
       THEN << <<"pump", TRUE>> >> ELSE <<>>)
      \o _apply_nutricion_state_cmds(f2, schedule_active \/ f2.manual_nut_on)
      \o (IF f.manual_mode THEN <<>>
          ELSE (IF ~g.cold_in /\ ~g.hot_in THEN _apply_relays_cmds(g) ELSE <<>>)
               \o _apply_relays_cmds(g))

\* ------------------------------------------------------------------------
\* One tick of one panel in its environment
\* ------------------------------------------------------------------------
\* _csv_write_row under write outcome w: the files after and whether an
\* exception left the function (get_backup_path and os.makedirs of the
\* backup's directory run outside the try blocks).
_csv_write_row_in(f, d, name, w) ==
  IF w = "ok" THEN [disk |-> _csv_write_row(f, d, name), raised |-> FALSE]
  ELSE LET row == Row(name)
           ipath == _csv_path(name)
           cabe == ~exists(d, ipath)
           d1 == IF f.csv_running /\ w # "csv_open_fails"
                 THEN AppendRow(d, ipath, cabe, row) ELSE d
           bpath == get_backup_path
           write_header == ~exists(d1, bpath) \/ getsize(d1, bpath) = 0
       IN  IF w = "backup_dir_fails" THEN [disk |-> d1, raised |-> TRUE]
           ELSE IF w = "backup_open_fails" THEN [disk |-> d1, raised |-> FALSE]
           ELSE [disk |-> AppendRow(d1, bpath, write_header, row),
                 raised |-> FALSE]

\* What one tick meets: the panels whose temperature read fails, the voltage
\* each flow channel reads (None: the read raises), the outcome of each
\* panel's writes and of each flow channel's writes, and the relay or stepper
\* call of each panel that raises (0: none).
Calm ==
  [ read_fails |-> {},
    volts |-> [c \in Ferms |-> Some(8 * SHUNT_OHMS[c] * 100)],
    w |-> [c \in Ferms |-> "ok"],
    wf |-> [c \in Ferms |-> "ok"],
    bus |-> [c \in Ferms |-> 0] ]

\* f.update_process() of panel c at tnow measuring temp, from
\* st = [ferm, app, disk, raised].
PanelTick(st, c, tnow, temp, e) ==
  LET f == st.ferm[c]
      rd == read_temp_ds18b20(st.app.hw,
                              IF c \in e.read_fails THEN None ELSE Some(temp))
      g == update_process(f, tnow, rd.value)
      a1 == _record_nut_sample(st.app, c, tnow, g.nut_led_on)
      a2 == [a1 EXCEPT !.hw = gpio_cmds(rd.hw, c,
                                        update_process_cmds(f, tnow, rd.value),
                                        e.bus[c]),
                       !.ran = @ \cup {c}]
      wr == _csv_write_row_in(g, st.disk, c, e.w[c])
  IN  [ferm |-> [st.ferm EXCEPT ![c] = g], app |-> a2, disk |-> wr.disk,
       raised |-> wr.raised]

\* for f in self.ferms: f.update_process()
RECURSIVE TickPanels(_, _, _, _, _)
TickPanels(order, st, tnow, temps, e) ==
  IF order = <<>> \/ st.raised THEN st
  ELSE The({ TickPanels(Tail(order), st1, tnow, temps, e) :
               st1 \in { PanelTick(st, Head(order), tnow, temps[Head(order)], e) } })

\* ------------------------------------------------------------------------
\* Inputs
\* ------------------------------------------------------------------------
Temps == {1900, 1950, 2000, 2050, 2100}
SpEntries == {Entry("num", 2000), Entry("num", 2050), Entry("text", 0), Entry("empty", 0)}
BandEntries == {Entry("num", 50), Entry("num", 5), Entry("num", 2), Entry("text", 0)}

\* hh:mm texts as an operator types them: zero-padded or not.
Padded(h, m) == Pad2(h) \o <<Colon>> \o Pad2(m)
Unpadded(h, m) == Str(h) \o <<Colon>> \o Pad2(m)
Event(time, value) == [time |-> time, value |-> value]

\* The control specifications start at 08:59:30 of day 0.
StartClock == 8 * 3600 + 59 * 60 + 30
ControlInstants ==
  {StartClock + k * PassStep : k \in 0..(MaxElapsed \div PassStep)}

\* Dosing calendars an operator may install (all events on day 0).
OnDay0(flist) == [d \in Dates |-> IF d = 0 THEN flist ELSE <<>>]
NutCals ==
  { OnDay0(<<Event(Padded(9, 0), 30), Event(Padded(9, 0), 20)>>),
    OnDay0(<<Event(Padded(9, 0), 30), Event(Padded(9, 0), -10)>>),
    OnDay0(<<Event(Padded(9, 0), 90), Event(Padded(9, 1), 20)>>),
    OnDay0(<<Event(Padded(9, 0), -10)>>),
    OnDay0(<<Event(Unpadded(9, 0), 30)>>) }

\* ------------------------------------------------------------------------
\* Actions
\* ------------------------------------------------------------------------
Init ==
  /\ ferm = [c \in Ferms |-> NewPanel]
  /\ clock = StartClock
  /\ dlg_data = EmptyCal
  /\ q_res = None
  /\ op = [name |-> "init", c |-> "-", pre |-> {}]
  /\ app = NewApp
  /\ disk = EmptyDisk

\* What is switched on in panels fs: <<panel, "cold" | "hot" | "pump" |
\* "deadline" | "manual_nut" | "auto">>.
Active(fs) ==
  {<<c, "cold">> : c \in {x \in Ferms : fs[x].cold_in}}
    \cup {<<c, "hot">> : c \in {x \in Ferms : fs[x].hot_in}}
    \cup {<<c, "pump">> : c \in {x \in Ferms : fs[x].nut_led_on}}
    \cup {<<c, "deadline">> : c \in {x \in Ferms : fs[x].nut_running_until # None}}
    \cup {<<c, "manual_nut">> : c \in {x \in Ferms : fs[x].manual_nut_on}}
    \cup {<<c, "auto">> : c \in {x \in Ferms : ~fs[x].manual_mode}}

\* The recording state of a sink, from its two flags.
SinkState(running, paused) ==
  IF running THEN "recording" ELSE IF paused THEN "paused" ELSE "idle"
\* The sinks of panel c before one of their handlers: <<panel, state of the
\* temperature sink>>, <<panel, "co2", state of the CO2 sink>>, and
\* <<panel, "file">> if the temperature sink's file exists.
Sinks(c) ==
  {<<c, SinkState(ferm[c].csv_running, ferm[c].csv_paused)>>,
   <<c, "co2", SinkState(app.co2_csv_running[c], app.co2_csv_paused[c])>>}
    \cup (IF exists(disk, _csv_path(c)) THEN {<<c, "file">>} ELSE {})

\* The dosing deadlines before a tick or a pump toggle: <<panel, "deadline">>
\* for a deadline that is set, <<panel, "running">> for one still in the
\* future, <<panel, "pump">> for a pump that is on.
Dosing(fs) ==
  {<<c, "deadline">> : c \in {x \in Ferms : fs[x].nut_running_until # None}}
    \cup {<<c, "running">> :
             c \in {x \in Ferms : /\ fs[x].nut_running_until # None
                                  /\ clock < fs[x].nut_running_until[1]}}
    \cup {<<c, "pump">> : c \in {x \in Ferms : fs[x].nut_led_on}}

\* A handler named name ran on panel c ("all": on every panel); the history
\* keeps what was switched on before an operator's force or stop, and the
\* dosing deadlines before a tick or a pump toggle.
RanWith(name, c, newferm, newapp, newdisk) ==
  /\ ferm' = newferm
  /\ app' = [newapp EXCEPT !.stopped = IF name = "cerrar_todo_global" THEN TRUE
                                       ELSE IF name = "tick" THEN @ ELSE FALSE]
  /\ disk' = newdisk
  /\ op' = [name |-> name, c |-> c,
            pre |-> IF name \in {"cerrar_todo_global", "on_close"} THEN Active(ferm)
                    ELSE IF name \in {"forzar_frio", "forzar_caliente", "cerrar_todo"}
                    THEN {a \in Active(ferm) : a[1] = c}
                    ELSE IF name \in {"tick", "toggle_manual_nut"} THEN Dosing(ferm)
                    ELSE IF name \in {"csv_start", "csv_pause", "csv_export",
                                     "csv_restart", "co2_csv_start",
                                     "co2_csv_pause", "co2_csv_restart",
                                     "co2_csv_export"}
                    THEN Sinks(c)
                    ELSE {}]
  /\ UNCHANGED <<clock, dlg_data, q_res>>
\* A handler of a panel that touches neither the App object nor the files.
Ran(name, c, newferm) == RanWith(name, c, newferm, app, disk)

\* Time passes: the clock moves to a later instant of T (a lookup made before
\* is no longer current).
Pass(T) ==
  \E ts \in T :
    /\ ts > clock
    /\ clock' = ts
    /\ q_res' = None
    /\ op' = [name |-> "pass", c |-> "-", pre |-> {}]
    /\ UNCHANGED <<ferm, dlg_data, app, disk>>

\* The rows of a file (0 for an absent file).
RECURSIVE CountRows(_)
CountRows(lines) ==
  IF lines = <<>> THEN 0
  ELSE (IF Head(lines).kind = "row" THEN 1 ELSE 0) + CountRows(Tail(lines))
Rows(file) == IF file = None THEN 0 ELSE CountRows(file[1])

\* App._tick while a tick is scheduled: every panel runs update_process (which
\* records the pump-active flag and writes the panel's row), then _flow_tick
\* samples the flow channels, then the next tick is scheduled; an exception
\* that leaves update_process or _flow_tick ends _tick at once. TS[c] are the
\* temperatures panel c may measure, E what the tick may meet.
TickWith(TS, E) ==
  \E temps \in [Ferms -> Temps], e \in E :
    /\ \A c \in Ferms : temps[c] \in TS[c]
    /\ app.tick_job
    /\ ~app.closing
    /\ \A p \in Paths : Rows(disk[p]) < Cardinality(Ferms) * MaxTicks
    /\ LET st0 == [ferm |-> ferm,
                   app |-> [app EXCEPT !.hw.bus_calls = 0, !.flow_failed = {},
                                       !.ran = {}, !.flow_ran = FALSE,
                                       !.met = [w |-> e.w, wf |-> e.wf,
                                                read_fails |-> e.read_fails,
                                                bus |-> e.bus]],
                   disk |-> disk, raised |-> FALSE]
       IN  \E st1 \in {TickPanels(FermOrder, st0, clock, temps, e)} :
           \E st2 \in { IF st1.raised THEN st1
                         ELSE _flow_tick(FermOrder,
                                         [st1 EXCEPT !.app.flow_ran = TRUE],
                                         clock, e.volts, e.wf) } :
             RanWith("tick", "all", st1.ferm,
                     [st2.app EXCEPT !.tick_job = ~st2.raised], st2.disk)

\* A tick in an environment where every read and every write succeeds.
Tick(TS) == TickWith(TS, {Calm})

\* The "Modo manual (forzar)" checkbox.
ToggleManualMode(c) ==
  Ran("manual_mode", c,
      [ferm EXCEPT ![c] = [@ EXCEPT !.manual_mode = ~@]])

DoForzarFrio(c) == Ran("forzar_frio", c, [ferm EXCEPT ![c] = forzar_frio(@)])
DoForzarCaliente(c) ==
  Ran("forzar_caliente", c, [ferm EXCEPT ![c] = forzar_caliente(@)])
DoCerrarTodo(c) == Ran("cerrar_todo", c, [ferm EXCEPT ![c] = cerrar_todo(@)])
DoToggleManualNut(c) ==
  Ran("toggle_manual_nut", c, [ferm EXCEPT ![c] = toggle_manual_nut(@, clock)])
DoApplySp(c) ==
  \E raw \in SpEntries : Ran("apply_sp", c, [ferm EXCEPT ![c] = apply_sp(@, raw)])
DoApplyBand(c) ==
  \E raw \in BandEntries :
    Ran("apply_band", c, [ferm EXCEPT ![c] = apply_band(@, raw)])

\* edit_cal_nut with the dialog accepted: the panel takes the dialog's data.
\* The model's operator installs a dosing calendar once in a run.
DoEditCalNut(c) ==
  \E cal \in NutCals :
    /\ ferm[c].cal_nut = EmptyCal
    /\ Ran("edit_cal_nut", c, [ferm EXCEPT ![c] = [@ EXCEPT !.cal_nut = cal]])

\* Setpoint calendars an operator may install: an event at 09:00 of day 0;
\* events at 08:00 and 09:01 of day 0; events on day 1 only.
SpCals ==
  { OnDay0(<<Event(Padded(9, 0), 2200)>>),
    OnDay0(<<Event(Padded(9, 1), 2300), Event(Padded(8, 0), 1800)>>),
    [d \in Dates |-> IF d = 1 THEN <<Event(Padded(8, 0), 2500)>> ELSE <<>>] }
\* edit_cal_sp with the dialog accepted: the panel takes the dialog's data.
\* The model's operator installs a setpoint calendar once in a run.
DoEditCalSp(c) ==
  \E cal \in SpCals :
    /\ ferm[c].cal_sp = EmptyCal
    /\ Ran("edit_cal_sp", c, [ferm EXCEPT ![c] = [@ EXCEPT !.cal_sp = cal]])

cerrar_todo_global ==
  Ran("cerrar_todo_global", "all", [c \in Ferms |-> stop_all(ferm[c])])

\* The four buttons of a panel's temperature sink.
DoCsvStart(c) == Ran("csv_start", c, [ferm EXCEPT ![c] = csv_start(@)])
DoCsvPause(c) == Ran("csv_pause", c, [ferm EXCEPT ![c] = csv_pause(@)])
\* The directories the model's operator exports into ("": dialog cancelled).
ExportDirs == {"", "Proceso", "Export"}
DoCsvExport(c) ==
  \E dst_dir \in ExportDirs :
    RanWith("csv_export", c, ferm, app,
            csv_export_files(ferm[c], disk, c, dst_dir))
DoCsvRestart(c) ==
  RanWith("csv_restart", c, [ferm EXCEPT ![c] = csv_restart(@)], app,
          csv_restart_files(disk, c))
\* The buttons of a panel's CO2 sink.
DoCo2CsvStart(c) == RanWith("co2_csv_start", c, ferm, co2_csv_start(app, c), disk)
DoCo2CsvPause(c) == RanWith("co2_csv_pause", c, ferm, co2_csv_pause(app, c), disk)
DoCo2CsvRestart(c) ==
  RanWith("co2_csv_restart", c, ferm, co2_csv_restart(app, c),
          co2_csv_restart_files(disk, c))
DoCo2CsvExport(c) ==
  \E dst_dir \in ExportDirs :
    RanWith("co2_csv_export", c, ferm, app,
            co2_csv_export_files(app, disk, c, dst_dir))

\* The process ends and is started again: the objects are built anew, the
\* files stay.
AppRestart ==
  RanWith("restart", "all", [c \in Ferms |-> NewPanel],
          [NewApp EXCEPT !.run = 2], disk)

\* ------------------------------------------------------------------------
\* Thermal control: F1 under full operator control, F2 and F3 ticking at a
\* temperature inside their band.
\* ------------------------------------------------------------------------
ThermalTemps == [c \in Ferms |-> IF c = "F1" THEN Temps ELSE {2000}]

Next ==
  \/ Tick(ThermalTemps)
  \/ ToggleManualMode("F1")
  \/ DoForzarFrio("F1")
  \/ DoForzarCaliente("F1")
  \/ DoCerrarTodo("F1")
  \/ DoApplySp("F1")
  \/ DoApplyBand("F1")
  \/ cerrar_todo_global

Spec == Init /\ [][Next]_vars

\* ------------------------------------------------------------------------
\* Thermal control: properties
\* ------------------------------------------------------------------------
Lo(f) == f.sp - f.band
Hi(f) == f.sp + f.band
TickRan == op'.name = "tick"

\* C1: in every reachable state of every channel - after any sequence of
\* ticks (any temperature, setpoint, band), force-cold, force-hot, close-all,
\* stop-all and manual-override on/off - cold_in and hot_in are never both
\* true.
C1_NeverBoth == \A c \in Ferms : ~(ferm[c].cold_in /\ ferm[c].hot_in)
\* A tick in automatic mode has turned the cold actuator on at the upper
\* threshold.
C1_Witness ==
  /\ op.name = "tick"
  /\ ~ferm["F1"].manual_mode
  /\ ferm["F1"].cold_in
  /\ ferm["F1"].t >= Hi(ferm["F1"])

\* C2: for a channel not in manual override, a tick whose measured
\* temperature lies strictly between setpoint-band and setpoint+band changes
\* neither cold_in nor hot_in (so no sequence of such ticks does).
C2_HoldInBand ==
  [][TickRan =>
       \A c \in Ferms :
         (~ferm[c].manual_mode /\ Lo(ferm'[c]) < ferm'[c].t
            /\ ferm'[c].t < Hi(ferm'[c]))
         => (ferm'[c].cold_in = ferm[c].cold_in /\ ferm'[c].hot_in = ferm[c].hot_in)
    ]_vars
\* A tick inside the band has left an actuator on.
C2_Witness ==
  /\ op.name = "tick"
  /\ ~ferm["F1"].manual_mode
  /\ Lo(ferm["F1"]) < ferm["F1"].t /\ ferm["F1"].t < Hi(ferm["F1"])
  /\ ferm["F1"].hot_in

\* C3: for a channel not in manual override one tick computes the flags by
\* the hysteresis rule: cold on->off iff temp <= setpoint-band, off->on iff
\* temp >= setpoint+band; hot on->off iff temp >= setpoint+band, off->on iff
\* temp <= setpoint-band; otherwise each flag keeps its value.
C3_HysteresisRule ==
  [][TickRan =>
       \A c \in Ferms :
         ~ferm[c].manual_mode =>
           LET temp == ferm'[c].t
               lo == Lo(ferm'[c])
               hi == Hi(ferm'[c])
           IN  /\ ferm'[c].cold_in =
                    (IF ferm[c].cold_in THEN ~(temp <= lo) ELSE temp >= hi)
               /\ ferm'[c].hot_in =
                    (IF ferm[c].hot_in THEN ~(temp >= hi) ELSE temp <= lo)
    ]_vars
\* A tick exactly at the lower threshold has turned the hot actuator on.
C3_Witness ==
  /\ op.name = "tick"
  /\ ~ferm["F1"].manual_mode
  /\ ferm["F1"].t = Lo(ferm["F1"])
  /\ ferm["F1"].hot_in /\ ~ferm["F1"].cold_in

\* C5: while a channel is in manual override a tick leaves cold_in and hot_in
\* unchanged for every temperature, setpoint and band; only the operator's
\* force actions (force-cold, force-hot, close-all, stop-all) change them.
C5_ManualFreezes ==
  [][\A c \in Ferms :
       ferm[c].manual_mode =>
         /\ TickRan =>
              (ferm'[c].cold_in = ferm[c].cold_in /\ ferm'[c].hot_in = ferm[c].hot_in)
         /\ (ferm'[c].cold_in # ferm[c].cold_in \/ ferm'[c].hot_in # ferm[c].hot_in)
              => /\ op'.name \in {"forzar_frio", "forzar_caliente", "cerrar_todo",
                                  "cerrar_todo_global"}
                 /\ op'.c \in {c, "all"}
    ]_vars
\* A tick in manual override below the lower threshold has left the forced
\* cold actuator on.
C5_Witness ==
  /\ op.name = "tick"
  /\ ferm["F1"].manual_mode
  /\ ferm["F1"].cold_in
  /\ ferm["F1"].t <= Lo(ferm["F1"])

\* C6: in manual override force-cold yields cold on and hot off, force-hot
\* yields hot on and cold off, close-all yields both off, whatever the flags
\* were before.
C6_ForceCancelsOther ==
  \A c \in Ferms :
    (op.c = c /\ ferm[c].manual_mode) =>
      /\ op.name = "forzar_frio" => (ferm[c].cold_in /\ ~ferm[c].hot_in)
      /\ op.name = "forzar_caliente" => (ferm[c].hot_in /\ ~ferm[c].cold_in)
      /\ op.name = "cerrar_todo" => (~ferm[c].hot_in /\ ~ferm[c].cold_in)
\* Force-cold has acted in manual override on a channel whose hot actuator
\* was on.
C6_Witness ==
  /\ op.name = "forzar_frio"
  /\ ferm[op.c].manual_mode
  /\ <<op.c, "hot">> \in op.pre
  /\ ferm[op.c].cold_in

\* ------------------------------------------------------------------------
\* Dosing: the clock advances, F1 (too warm, so cooling when automatic) has a
\* dosing calendar and a manual pump toggle.
\* ------------------------------------------------------------------------
DoseTemps == [c \in Ferms |-> IF c = "F1" THEN {2100} ELSE {2000}]

NextDose ==
  \/ Pass(ControlInstants)
  \/ Tick(DoseTemps)
  \/ DoEditCalNut("F1")
  \/ DoToggleManualNut("F1")
  \/ cerrar_todo_global

SpecDose == Init /\ [][NextDose]_vars


\* ------------------------------------------------------------------------
\* Dosing: properties
\* ------------------------------------------------------------------------
\* C4: the global stop-all leaves every channel with manual override on, cold
\* and hot off, the dosing deadline cleared, the manual pump toggle off and
\* the pump-active flag false, whatever state each channel was in before.
C4_StopAllPost ==
  op.name = "cerrar_todo_global" =>
    \A c \in Ferms :
      /\ ferm[c].manual_mode
      /\ ~ferm[c].cold_in /\ ~ferm[c].hot_in
      /\ ferm[c].nut_running_until = None
      /\ ~ferm[c].manual_nut_on
      /\ ~ferm[c].nut_led_on
\* Stop-all has acted while F1 was cooling in automatic mode with a calendar
\* dose running and its manual pump on, and F2 and F3 were in automatic mode.
C4_Witness ==
  /\ op.name = "cerrar_todo_global"
  /\ {<<"F1", "auto">>, <<"F1", "cold">>, <<"F1", "deadline">>, <<"F1", "pump">>,
      <<"F1", "manual_nut">>, <<"F2", "auto">>, <<"F3", "auto">>} \subseteq op.pre

\* The value fields of the events of calendar cal on ts's date whose
\* time_of_day text equals ts's HH:MM, summed; with positive_only the
\* non-positive fields do not count.
RECURSIVE SumMatching(_, _, _)
SumMatching(flist, hhmm, positive_only) ==
  IF flist = <<>> THEN 0
  ELSE (IF Head(flist).time = hhmm /\ (positive_only => Head(flist).value > 0)
        THEN Head(flist).value ELSE 0)
       + SumMatching(Tail(flist), hhmm, positive_only)
\* The first tick of a panel in the clock's minute.
MinuteBoundary(f) == f.last_min # strftime_YmdHM(clock)
\* A deadline as the expiry test of the same tick leaves it.
AfterExpiry(until) ==
  IF until # None /\ clock < until[1] THEN until ELSE None

\* C9 as stated: on the minute boundary the values of ALL dosing events of
\* now's date whose time_of_day equals now's minute are summed; a positive sum
\* sets dosing_until = now + sum, a non-positive sum leaves dosing_until as it
\* was.
C9_SumOfAllValues ==
  [][TickRan =>
       \A c \in Ferms :
         MinuteBoundary(ferm[c]) =>
           LET total == SumMatching(ferm[c].cal_nut[ymd(clock)],
                                    strftime_HM(clock), FALSE)
           IN  ferm'[c].nut_running_until =
                 (IF total > 0 THEN Some(clock + total)
                  ELSE AfterExpiry(ferm[c].nut_running_until))
    ]_vars

\* C9 amended: on the minute boundary the POSITIVE values of the dosing
\* events of now's date whose time_of_day text equals now's HH:MM are summed
\* (each non-positive value is skipped on its own); a positive sum sets
\* dosing_until = now + sum, otherwise the fire leaves dosing_until as it was
\* (the same tick then clears it if it is not in the future).
C9_SumOfPositiveValues ==
  [][TickRan =>
       \A c \in Ferms :
         MinuteBoundary(ferm[c]) =>
           LET total == SumMatching(ferm[c].cal_nut[ymd(clock)],
                                    strftime_HM(clock), TRUE)
           IN  ferm'[c].nut_running_until =
                 (IF total > 0 THEN Some(clock + total)
                  ELSE AfterExpiry(ferm[c].nut_running_until))
    ]_vars
\* Events (09:00, 30) and (09:00, 20): the tick at 09:00:00 has set
\* dosing_until to 09:00:50.
C9_Witness ==
  /\ op.name = "tick"
  /\ clock = 9 * 3600
  /\ ferm["F1"].cal_nut[0] = <<Event(Padded(9, 0), 30), Event(Padded(9, 0), 20)>>
  /\ ferm["F1"].nut_running_until = Some(9 * 3600 + 50)

\* C10: dosing events fire at most once per minute per channel: over the
\* ticks that fall inside one calendar minute the calendar sets the dosing
\* deadline of a channel at most once.
C10_OncePerMinute == \A c \in Ferms : ferm[c].fire_n <= 1
\* A second tick has run at 09:00:30, inside the minute whose first tick
\* (at 09:00:00) fired the 50 s dose.
C10_Witness ==
  /\ op.name = "tick"
  /\ clock = 9 * 3600 + 30
  /\ ferm["F1"].fire_min = strftime_YmdHM(clock)
  /\ ferm["F1"].fire_n = 1
  /\ ferm["F1"].nut_running_until = Some(9 * 3600 + 50)

\* now < dosing_until, for a deadline that is set.
InFuture(until, tnow) == until # None /\ tnow < until[1]

\* C11: a dosing fire overwrites rather than extends: when events fire at time
\* now while an earlier deadline is still in the future, the new dosing_until
\* is exactly now + the sum of the fired (positive) values, and it is what the
\* same tick gives with no earlier deadline at all.
C11_FireOverwrites ==
  [][TickRan =>
       \A c \in Ferms :
         LET f == ferm[c]
             total == SumMatching(f.cal_nut[ymd(clock)], strftime_HM(clock), TRUE)
         IN  (MinuteBoundary(f) /\ total > 0 /\ InFuture(f.nut_running_until, clock))
               => /\ ferm'[c].nut_running_until = Some(clock + total)
                  /\ ferm'[c].nut_running_until =
                       update_process([f EXCEPT !.nut_running_until = None],
                                      clock, f.t).nut_running_until
    ]_vars
\* Events (09:00, 90) and (09:01, 20): the tick at 09:01:00 has fired while the
\* deadline of the 09:00 fire was still running, and the deadline is now
\* 09:01:20, earlier than before.
C11_Witness ==
  /\ op.name = "tick"
  /\ clock = 9 * 3600 + 60
  /\ <<"F1", "running">> \in op.pre
  /\ ferm["F1"].cal_nut[0] = <<Event(Padded(9, 0), 90), Event(Padded(9, 1), 20)>>
  /\ ferm["F1"].fire_min = strftime_YmdHM(clock)
  /\ ferm["F1"].nut_running_until = Some(9 * 3600 + 80)

\* C12: immediately after every tick and after every manual pump toggle the
\* pump-active flag of the channel equals (dosing_until is set and now <
\* dosing_until) OR (manual pump toggle on); a manual pump toggle never
\* changes dosing_until.
C12_PumpIsOr ==
  [][\A c \in Ferms :
       /\ (op'.name = "tick" \/ (op'.name = "toggle_manual_nut" /\ op'.c = c))
            => ferm'[c].nut_led_on =
                 (InFuture(ferm'[c].nut_running_until, clock')
                    \/ ferm'[c].manual_nut_on)
       /\ op'.name = "toggle_manual_nut"
            => ferm'[c].nut_running_until = ferm[c].nut_running_until
    ]_vars
\* The manual pump of F1 has been toggled off while a calendar dose was
\* running: the pump stays on.
C12_Witness ==
  /\ op.name = "toggle_manual_nut" /\ op.c = "F1"
  /\ ~ferm["F1"].manual_nut_on
  /\ InFuture(ferm["F1"].nut_running_until, clock)
  /\ ferm["F1"].nut_led_on

\* C13: a tick after which neither the deadline is in the future nor the
\* manual pump toggle is on (the pump is inactive) has cleared dosing_until;
\* after any tick dosing_until is unset or strictly later than the tick's time.
C13_ExpiredCleared ==
  [][TickRan =>
       \A c \in Ferms :
         /\ (~InFuture(ferm'[c].nut_running_until, clock') /\ ~ferm'[c].manual_nut_on)
              => ferm'[c].nut_running_until = None
         /\ \/ ferm'[c].nut_running_until = None
            \/ ferm'[c].nut_running_until[1] > clock'
    ]_vars
\* A tick has found F1's deadline set but no longer in the future, and has
\* cleared it.
C13_Witness ==
  /\ op.name = "tick"
  /\ <<"F1", "deadline">> \in op.pre
  /\ <<"F1", "running">> \notin op.pre
  /\ ferm["F1"].nut_running_until = None

\* The samples a step appends to the event history of channel c.
Appended(c) == Len(app'.nut_samples[c]) - Len(app.nut_samples[c])
StateInt(state) == IF state THEN 1 ELSE 0

\* C14 as stated: every off->on and on->off transition of a channel's
\* pump-active flag - by a calendar fire, a deadline expiry, a manual pump
\* toggle or stop-all - is recorded as a sample of that channel's event
\* history, at the latest by the tick that follows it: a tick appends one
\* sample for each change of the flag since the previous tick's recording,
\* its own change included.
C14_EveryTransitionRecorded ==
  [][TickRan =>
       \A c \in Ferms :
         Appended(c) >= ferm[c].led_flips
                          + (IF ferm'[c].nut_led_on # ferm[c].nut_led_on THEN 1 ELSE 0)
    ]_vars

\* C15: nutrition event samples are recorded only on state transition: a tick
\* whose pump-active state equals the state of the last recorded sample
\* appends nothing, and any two consecutive samples of a channel's event
\* history carry different states.
C15_EdgeTriggered ==
  [][\A c \in Ferms :
       LET before == app.nut_samples[c]
           after == app'.nut_samples[c]
       IN  /\ (TickRan /\ before # <<>>
                 /\ before[Len(before)][2] = StateInt(ferm'[c].nut_led_on))
                => after = before
           /\ \A i \in 1..(Len(after) - 1) : after[i][2] # after[i + 1][2]
    ]_vars
\* A tick at a later instant has found F1's pump on, as the last of the two
\* recorded samples says, and has appended nothing.
C15_Witness ==
  /\ op.name = "tick"
  /\ ferm["F1"].nut_led_on
  /\ Len(app.nut_samples["F1"]) = 2
  /\ app.nut_samples["F1"][2][2] = 1
  /\ app.nut_samples["F1"][2][1] < clock


\* ------------------------------------------------------------------------
\* Calendar dialog and setpoint lookup
\* ------------------------------------------------------------------------
\* What an operator types into the dialog: a time text and a value.
DlgInputs ==
  { Event(Padded(8, 0), 2000), Event(Padded(14, 0), 2500),
    Event(Padded(14, 0), 2000), Event(Unpadded(9, 0), 2200),
    Event(Padded(24, 0), 2000) }

\* 07:59, 13:00 and 14:00 of day 0; 07:00 and 14:00 of day 1.
LookupInstants ==
  {7 * 3600 + 59 * 60, 13 * 3600, 14 * 3600,
   SecPerDay + 7 * 3600, SecPerDay + 14 * 3600}

InitCal ==
  /\ ferm = [c \in Ferms |-> NewPanel]
  /\ clock = 7 * 3600 + 59 * 60
  /\ dlg_data = EmptyCal
  /\ q_res = None
  /\ op = [name |-> "init", c |-> "-", pre |-> {}]
  /\ app = NewApp
  /\ disk = EmptyDisk

\* The dialog's data after a handler; the latest lookup is no longer current.
Edited(name, newdata) ==
  /\ dlg_data' = newdata
  /\ q_res' = None
  /\ op' = [name |-> name, c |-> "-", pre |-> {}]
  /\ UNCHANGED <<ferm, clock, app, disk>>

\* DateCalendarDialog.add_event on the selected date (today is the clock's date).
add_event(data, today, selected_date, time_text, val) ==
  IF selected_date < today THEN data
  ELSE IF ~hhmm_ok(time_text) THEN data
  ELSE [data EXCEPT ![selected_date] = Append(@, Event(time_text, val))]

\* list.remove(x): the list without the first element equal to x.
RECURSIVE RemoveFirst(_, _)
RemoveFirst(flist, x) ==
  IF flist = <<>> THEN <<>>
  ELSE IF Head(flist) = x THEN Tail(flist)
  ELSE <<Head(flist)>> \o RemoveFirst(Tail(flist), x)

\* DateCalendarDialog.del_event: idx is the selected row of the sorted list.
del_event(data, selected_date, idx) ==
  LET flist == SortedByTime(data[selected_date])
  IN  IF flist = <<>> THEN data
      ELSE [data EXCEPT ![selected_date] = RemoveFirst(@, flist[idx])]

DoAddEvent ==
  \E d \in Dates, e \in DlgInputs :
    /\ Len(dlg_data[d]) < MaxEvents
    /\ Edited("add_event", add_event(dlg_data, ymd(clock), d, e.time, e.value))

\* select_date refuses the dates before today.
DoDelEvent ==
  \E d \in Dates :
    /\ d >= ymd(clock)
    /\ \E idx \in DOMAIN dlg_data[d] :
         Edited("del_event", del_event(dlg_data, d, idx))

\* The setpoint lookup applied to the dialog's data at the clock's instant.
DoLookup ==
  /\ q_res' = Some(sp_from_date_calendar(dlg_data, clock))
  /\ op' = [name |-> "lookup", c |-> "-", pre |-> {}]
  /\ UNCHANGED <<ferm, clock, dlg_data, app, disk>>

NextCal ==
  \/ DoAddEvent
  \/ DoDelEvent
  \/ DoLookup
  \/ Pass(LookupInstants)

SpecCal == InitCal /\ [][NextCal]_vars


\* ------------------------------------------------------------------------
\* Setpoint lookup: properties
\* ------------------------------------------------------------------------
Ev0800 == Event(Padded(8, 0), 2000)
Ev1400 == Event(Padded(14, 0), 2500)
\* The events of today's list that apply at the clock's instant, by position.
Applicable(flist) ==
  {i \in DOMAIN flist : str_le(flist[i].time, strftime_HM(clock))}

\* C7: the setpoint lookup at time now returns the value of an event with the
\* greatest time_of_day among the events of now's date whose time_of_day <=
\* now's HH:MM (time texts in str order), and "no change" when there is none;
\* with (08:00, 20.0) and (14:00, 25.0) on D it is unchanged at D 07:59, 20.0
\* at D 13:00 and 25.0 at D 14:00.
C7_LatestApplicable ==
  q_res # None =>
    LET r == q_res[1]
        flist == dlg_data[ymd(clock)]
        cand == Applicable(flist)
    IN  /\ IF cand = {} THEN r = None
           ELSE \E i \in cand :
                  /\ \A j \in cand : str_le(flist[j].time, flist[i].time)
                  /\ r = Some(flist[i].value)
        /\ dlg_data[0] = <<Ev0800, Ev1400>> =>
             /\ clock = 7 * 3600 + 59 * 60 => r = None
             /\ clock = 13 * 3600 => r = Some(2000)
             /\ clock = 14 * 3600 => r = Some(2500)
\* The lookup at 14:00 of day 0 has returned 25.0 from (08:00, 20.0) and
\* (14:00, 25.0), stored in the other order.
C7_Witness ==
  /\ op.name = "lookup"
  /\ clock = 14 * 3600
  /\ dlg_data[0] = <<Ev1400, Ev0800>>
  /\ q_res = Some(Some(2500))

\* The lists one date can hold.
DayLists ==
  UNION {[1..n -> {e \in DlgInputs : hhmm_ok(e.time)}] : n \in 0..MaxEvents}

\* C8: the lookup never consults other dates: its result at time now is the
\* same for every calendar that agrees with this one on now's date, and on day
\* D+1 before the first D+1 event it is "no change" whatever day D holds.
C8_OtherDatesIgnored ==
  q_res # None =>
    /\ \A d \in Dates \ {ymd(clock)} :
         \A other \in DayLists :
           sp_from_date_calendar([dlg_data EXCEPT ![d] = other], clock) = q_res[1]
    /\ Applicable(dlg_data[ymd(clock)]) = {} => q_res[1] = None
\* The lookup at 07:00 of day 1 has returned "no change" with day 0 holding
\* (08:00, 20.0) and (14:00, 25.0) and day 1 an event at 08:00.
C8_Witness ==
  /\ op.name = "lookup"
  /\ clock = SecPerDay + 7 * 3600
  /\ dlg_data[0] = <<Ev0800, Ev1400>>
  /\ dlg_data[1] = <<Ev0800>>
  /\ q_res = Some(None)


\* ------------------------------------------------------------------------
\* Persistence: F1's sinks started, paused and restarted, the process
\* restarted, every panel ticking inside its band; the global backup and F1's
\* file are absent or empty at the start.
\* ------------------------------------------------------------------------
CsvTemps == [c \in Ferms |-> {2000}]

InitCsv ==
  /\ ferm = [c \in Ferms |-> NewPanel]
  /\ clock = StartClock
  /\ dlg_data = EmptyCal
  /\ q_res = None
  /\ op = [name |-> "init", c |-> "-", pre |-> {}]
  /\ app = NewApp
  /\ \E backup \in {None, Some(<<>>)}, own \in {None, Some(<<>>)} :
       disk = [EmptyDisk EXCEPT ![get_backup_path] = backup,
                                ![_csv_path("F1")] = own]

NextCsv ==
  \/ Tick(CsvTemps)
  \/ ToggleManualMode("F1")
  \/ DoCsvStart("F1")
  \/ DoCsvPause("F1")
  \/ DoCsvRestart("F1")
  \/ DoCo2CsvStart("F1")
  \/ DoCo2CsvPause("F1")
  \/ DoCo2CsvRestart("F1")
  \/ AppRestart

SpecCsv == InitCsv /\ [][NextCsv]_vars

\* Persistence within one run: every button of F1's two sinks, export
\* included.
NextExport ==
  \/ Tick(CsvTemps)
  \/ DoCsvStart("F1")
  \/ DoCsvPause("F1")
  \/ DoCsvExport("F1")
  \/ DoCsvRestart("F1")
  \/ DoCo2CsvStart("F1")
  \/ DoCo2CsvPause("F1")
  \/ DoCo2CsvExport("F1")
  \/ DoCo2CsvRestart("F1")

SpecExport == InitCsv /\ [][NextExport]_vars


\* ------------------------------------------------------------------------
\* Persistence: properties
\* ------------------------------------------------------------------------
\* The lines of the file at path ("no file" and "empty file" both give <<>>).
Lines(d, path) == IF d[path] = None THEN <<>> ELSE d[path][1]
\* The rows of channel c among lines.
RECURSIVE RowsOf(_, _)
RowsOf(lines, c) ==
  IF lines = <<>> THEN 0
  ELSE (IF Head(lines) = Row(c) THEN 1 ELSE 0) + RowsOf(Tail(lines), c)
\* The header lines among lines.
RECURSIVE Headers(_)
Headers(lines) ==
  IF lines = <<>> THEN 0
  ELSE (IF Head(lines) = Header THEN 1 ELSE 0) + Headers(Tail(lines))
\* lines starts with the header and holds it nowhere else.
HeaderOnceFirst(lines) ==
  lines # <<>> /\ Head(lines) = Header /\ Headers(lines) = 1
IsPrefix(a, b) == Len(a) <= Len(b) /\ SubSeq(b, 1, Len(a)) = a
TempSinkState(f) == SinkState(f.csv_running, f.csv_paused)
Co2SinkState(a, c) == SinkState(a.co2_csv_running[c], a.co2_csv_paused[c])

\* C16: each control tick appends exactly one record per channel to the
\* global backup, whatever the recording state and the manual override, and
\* appends one record to the channel's own sink if and only if that sink is
\* recording; the file of an idle or paused sink is left unchanged by a tick.
C16_TickWritesSinks ==
  [][TickRan =>
       \A c \in Ferms :
         LET own == _csv_path(c)
             recording == TempSinkState(ferm[c]) = "recording"
         IN  /\ RowsOf(Lines(disk', get_backup_path), c)
                  = RowsOf(Lines(disk, get_backup_path), c) + 1
             /\ Rows(disk'[get_backup_path])
                  = Rows(disk[get_backup_path]) + Cardinality(Ferms)
             /\ recording => Rows(disk'[own]) = Rows(disk[own]) + 1
             /\ ~recording => disk'[own] = disk[own]
    ]_vars
\* A tick has run with F1 in manual override and its sink paused: F1's file
\* still holds the one record of the tick before the pause, the backup the
\* records of both ticks.
C16_Witness ==
  /\ op.name = "tick"
  /\ ferm["F1"].manual_mode
  /\ TempSinkState(ferm["F1"]) = "paused"
  /\ disk[_csv_path("F1")] = Some(<<Header, Row("F1")>>)
  /\ Rows(disk[get_backup_path]) = 2 * Cardinality(Ferms)

\* The changes of a sink's recording state the claim allows.
AllowedChange(before, after, name) ==
  \/ <<before, after>> \in {<<"idle", "recording">>, <<"recording", "paused">>,
                            <<"paused", "recording">>}
  \/ after = "idle" /\ name \in {"csv_restart", "co2_csv_restart", "restart"}

\* C17 as stated: the recording state of a per-channel sink (temperature or
\* CO2) changes only along idle -> recording, recording -> paused and
\* paused -> recording, plus restart back to idle; no other change is made by
\* any start, pause, export or restart.
C17_SinkTransitions ==
  [][\A c \in Ferms :
       /\ TempSinkState(ferm'[c]) # TempSinkState(ferm[c])
            => AllowedChange(TempSinkState(ferm[c]), TempSinkState(ferm'[c]), op'.name)
       /\ Co2SinkState(app', c) # Co2SinkState(app, c)
            => AllowedChange(Co2SinkState(app, c), Co2SinkState(app', c), op'.name)
    ]_vars

\* The files of the temperature sinks: each panel's own and the global backup.
TempSinkPaths == {_csv_path(c) : c \in Ferms} \cup {get_backup_path}

\* C18: for every sink (per-channel and global backup) a record write, a
\* pause or resume and a restart of the process keep a file that is absent, or
\* non-empty with the header exactly once as its first record, absent or
\* non-empty with the header exactly once as its first record.
C18_HeaderOnce ==
  [][op'.name \in {"tick", "csv_start", "csv_pause", "restart"} =>
       \A path \in TempSinkPaths :
         (disk[path] = None \/ HeaderOnceFirst(Lines(disk, path)))
           => (disk'[path] = None \/ HeaderOnceFirst(Lines(disk', path)))
    ]_vars
\* In the second run of the process a tick has written to the same files as
\* the tick of the first run: F1's file and the backup hold one header, then
\* the records of both ticks.
C18_Witness ==
  /\ op.name = "tick"
  /\ app.run = 2
  /\ disk[_csv_path("F1")] = Some(<<Header, Row("F1"), Row("F1")>>)
  /\ HeaderOnceFirst(Lines(disk, get_backup_path))
  /\ Rows(disk[get_backup_path]) = 2 * Cardinality(Ferms)

\* C19 as stated: for every sink (per-channel temperature sink, per-channel
\* CO2 sink and both global backups), when the file exists with zero length at
\* the first write, the header is written before the first record.
C19_HeaderOnEmptyFile ==
  [][/\ TickRan =>
          \A path \in TempSinkPaths :
            (disk[path] = Some(<<>>) /\ disk'[path] # disk[path])
              => Head(Lines(disk', path)) = Header
     /\ \A c \in Ferms :
          LET d == [disk EXCEPT ![_co2_csv_path(c)] = Some(<<>>),
                                ![get_co2_backup_path] = Some(<<>>)]
          IN  /\ Head(Lines(_co2_csv_write_row(co2_csv_start(app, c), d, c,
                                               clock, 0, 400, 592000, "OK"),
                            _co2_csv_path(c))) = Header
              /\ Head(Lines(_co2_backup_write_row(d, c, clock, 0, 400, 592000,
                                                  "OK"),
                            get_co2_backup_path)) = Header
    ]_vars

\* C20: restart of a per-channel sink deletes that sink's file and puts its
\* recording state at idle from any prior state, and leaves the global backup
\* untouched; no tick, start, pause, export or restart removes or rewrites a
\* record already in a global backup: its lines before a step are a prefix of
\* its lines after.
C20_RestartAndBackup ==
  [][/\ op'.name = "csv_restart"
          => /\ disk'[_csv_path(op'.c)] = None
             /\ TempSinkState(ferm'[op'.c]) = "idle"
             /\ disk'[get_backup_path] = disk[get_backup_path]
     /\ op'.name = "co2_csv_restart"
          => /\ disk'[_co2_csv_path(op'.c)] = None
             /\ Co2SinkState(app', op'.c) = "idle"
             /\ disk'[get_co2_backup_path] = disk[get_co2_backup_path]
     /\ \A path \in {get_backup_path, get_co2_backup_path} :
          /\ disk[path] # None => disk'[path] # None
          /\ IsPrefix(Lines(disk, path), Lines(disk', path))
    ]_vars
\* F1's sink has been restarted while recording into an existing file: the
\* file is gone, the sink idle, and the backup still holds the records of the
\* two ticks before.
C20_Witness ==
  /\ op.name = "csv_restart" /\ op.c = "F1"
  /\ {<<"F1", "recording">>, <<"F1", "file">>} \subseteq op.pre
  /\ disk[_csv_path("F1")] = None
  /\ TempSinkState(ferm["F1"]) = "idle"
  /\ HeaderOnceFirst(Lines(disk, get_backup_path))
  /\ Rows(disk[get_backup_path]) = 2 * Cardinality(Ferms)

\* ------------------------------------------------------------------------
\* Flow sampling: the ADS1115 readers are real (no simulator, the GPIO
\* import failed), so every channel's period is 10 s and a voltage read may
\* fail; every write succeeds.
\* ------------------------------------------------------------------------
\* The loop currents F1's sensor delivers, in hundredths of a mA.
FlowCurrents == {1200, 2051}
\* The retention window in seconds.
Retention == MAX_FLOW_HISTORY_HOURS * 3600
\* The instants of the flow specification: the start, 5 s and 10 s later, and
\* the same a retention window later.
FlowInstants ==
  {StartClock, StartClock + 5, StartClock + 10,
   StartClock + Retention, StartClock + Retention + 10}

FlowTemps == [c \in Ferms |-> {2000}]
\* What a tick meets when F1 reads any of the currents cs or fails, and F2
\* and F3 read 8 mA.
ReadEnvs(cs) ==
  { [Calm EXCEPT !.volts["F1"] = v1] :
      v1 \in {None} \cup {Some(c * SHUNT_OHMS["F1"]) : c \in cs} }

\* The App object of a process started without SIMULADOR whose GPIO import
\* failed, with <<FLOW_MIN_SCCM, FLOW_MAX_SCCM>> = range.
HardwareApp(range) ==
  [NewApp EXCEPT !.hw.sim = FALSE,
                 !.flow_sample_period = [c \in Ferms |-> 10],
                 !.FLOW_MIN_SCCM = range[1],
                 !.FLOW_MAX_SCCM = range[2]]

InitFlow ==
  /\ ferm = [c \in Ferms |-> NewPanel]
  /\ clock = StartClock
  /\ dlg_data = EmptyCal
  /\ q_res = None
  /\ op = [name |-> "init", c |-> "-", pre |-> {}]
  /\ app = HardwareApp(<<0, 50>>)
  /\ disk = EmptyDisk

NextFlow ==
  \/ Pass(FlowInstants)
  \/ TickWith(FlowTemps, ReadEnvs(FlowCurrents))
  \/ DoCo2CsvStart("F1")

SpecFlow == InitFlow /\ [][NextFlow]_vars

\* ------------------------------------------------------------------------
\* Flow conversion: one sample of every channel, F1's from any current of
\* ConvCurrents, under any flow range of FlowRanges.
\* ------------------------------------------------------------------------
\* <<FLOW_MIN_SCCM, FLOW_MAX_SCCM>> as the environment may set them.
FlowRanges == {<<0, 50>>, <<10, 50>>, <<50, 50>>, <<50, 10>>}
ConvCurrents ==
  {0, 379, 380, 399, 400, 401, 1200, 1350, 1999, 2000, 2001, 2050, 2051, 2400}

InitConv ==
  /\ ferm = [c \in Ferms |-> NewPanel]
  /\ clock = StartClock
  /\ dlg_data = EmptyCal
  /\ q_res = None
  /\ op = [name |-> "init", c |-> "-", pre |-> {}]
  /\ \E range \in FlowRanges : app = HardwareApp(range)
  /\ disk = EmptyDisk

NextConv ==
  \/ TickWith(FlowTemps, ReadEnvs(ConvCurrents))
  \/ DoCo2CsvStart("F1")

SpecConv == InitConv /\ [][NextConv]_vars

\* ------------------------------------------------------------------------
\* Flow sampling and conversion: properties
\* ------------------------------------------------------------------------
\* The records of channel c in a CO2 file.
Co2RowsOf(d, path, c) ==
  Cardinality({i \in DOMAIN Lines(d, path) :
                 /\ Lines(d, path)[i].kind = "row"
                 /\ Lines(d, path)[i].fermentador = c})
\* Sample s of channel c is a record of the global CO2 backup.
InBackup(d, c, s) ==
  \E i \in DOMAIN Lines(d, get_co2_backup_path) :
    LET line == Lines(d, get_co2_backup_path)[i]
    IN  /\ line.kind = "row"
        /\ line.fermentador = c
        /\ line.timestamp = strftime_YmdHMS(s[1])
        /\ line.flow_sccm = FormatFlow(s[2])
        /\ line.current_ma = FormatCurrent(s[3])
        /\ line.voltage = FormatVoltage(s[4])
        /\ line.status = s[5]
\* The samples of channel c taken at ts in the App object a.
TakenAt(a, c, ts) ==
  {i \in DOMAIN a.flow_samples[c] : a.flow_samples[c][i][1] = ts}
\* Channel c is due before the step.
DueBefore(c) ==
  app.flow_next_sample[c] = None \/ clock >= app.flow_next_sample[c][1]
\* The step has sampled channel c once, at the clock's instant.
SampledOnce(c) ==
  /\ Len(app'.flow_samples[c]) >= 1
  /\ app'.flow_samples[c][Len(app'.flow_samples[c])][1] = clock
  /\ Cardinality(TakenAt(app', c, clock)) = 1
  /\ TakenAt(app, c, clock) = {}
  /\ InBackup(disk', c, app'.flow_samples[c][Len(app'.flow_samples[c])])
  /\ Co2RowsOf(disk', get_co2_backup_path, c)
       = Co2RowsOf(disk, get_co2_backup_path, c) + 1
\* The step has left channel c's history and records as they were.
NotSampled(c) ==
  /\ app'.flow_samples[c] = app.flow_samples[c]
  /\ Co2RowsOf(disk', get_co2_backup_path, c)
       = Co2RowsOf(disk, get_co2_backup_path, c)
  /\ Co2RowsOf(disk', _co2_csv_path(c), c) = Co2RowsOf(disk, _co2_csv_path(c), c)
Rescheduled(c) ==
  app'.flow_next_sample[c] = Some(clock + app.flow_sample_period[c])

\* C24: on every tick at time ts a flow channel is sampled exactly when its
\* next_due is unset or ts >= next_due, and at most once; a successful sample
\* appends one sample to the channel's history, writes one record to the
\* global CO2 backup, and sets next_due = ts + the channel's period.
C24_SampledWhenDue ==
  [][TickRan =>
       \A c \in Ferms :
         /\ ~DueBefore(c) =>
               NotSampled(c) /\ app'.flow_next_sample[c] = app.flow_next_sample[c]
         /\ DueBefore(c) /\ c \notin app'.flow_failed =>
               SampledOnce(c) /\ Rescheduled(c)
         /\ DueBefore(c) /\ c \in app'.flow_failed => NotSampled(c)
    ]_vars
\* Three ticks, at the start, 5 s later and 10 s later: F1 was sampled by the
\* first, not by the second (not due) and again by the third (due exactly).
C24_Witness ==
  /\ op.name = "tick"
  /\ clock = StartClock + 10
  /\ Rows(disk[get_backup_path]) = 3 * Cardinality(Ferms)
  /\ Len(app.flow_samples["F1"]) = 2
  /\ app.flow_samples["F1"][1][1] = StartClock
  /\ app.flow_samples["F1"][2][1] = StartClock + 10
  /\ app.flow_next_sample["F1"] = Some(StartClock + 20)
  /\ Co2RowsOf(disk, get_co2_backup_path, "F1") = 2

\* C25: when a voltage read fails for a due flow channel, that tick appends
\* no sample to its history, writes nothing for it to either CO2 sink, sets
\* next_due = ts + period, and leaves the other channels as their own due
\* time decides: sampled and rescheduled if due, untouched if not.
C25_ReadFailure ==
  [][TickRan =>
       \A c \in app'.flow_failed :
         /\ DueBefore(c)
         /\ NotSampled(c)
         /\ Rescheduled(c)
         /\ \A o \in Ferms \ app'.flow_failed :
              IF DueBefore(o) THEN SampledOnce(o) /\ Rescheduled(o)
              ELSE /\ NotSampled(o)
                   /\ app'.flow_next_sample[o] = app.flow_next_sample[o]
    ]_vars
\* F1's read has failed in the tick 10 s after its first sample, with its CO2
\* sink recording: its history still holds one sample, its next sample is due
\* 10 s later, and F2 was sampled by the same tick.
C25_Witness ==
  /\ op.name = "tick"
  /\ clock = StartClock + 10
  /\ "F1" \in app.flow_failed
  /\ app.co2_csv_running["F1"]
  /\ Len(app.flow_samples["F1"]) = 1
  /\ app.flow_samples["F1"][1][1] = StartClock
  /\ app.flow_next_sample["F1"] = Some(StartClock + 20)
  /\ Len(app.flow_samples["F2"]) = 2

\* C26: after every successful flow sample at ts, every sample in the
\* channel's history has a timestamp >= ts - 504 hours, the samples older than
\* that are absent from the history, and the samples the step removed are
\* records of the global CO2 backup.
C26_Retention ==
  [][TickRan =>
       \A c \in Ferms :
         app'.flow_samples[c] # app.flow_samples[c] =>
           /\ \A i \in DOMAIN app'.flow_samples[c] :
                app'.flow_samples[c][i][1] >= clock - 504 * 3600
           /\ \A i \in DOMAIN app.flow_samples[c] :
                LET s == app.flow_samples[c][i]
                    kept == \E j \in DOMAIN app'.flow_samples[c] :
                              app'.flow_samples[c][j] = s
                IN  /\ s[1] < clock - 504 * 3600 => ~kept
                    /\ ~kept => InBackup(disk', c, s)
    ]_vars
\* A retention window and 10 s after its first sample F1 has been sampled for
\* the third time: the first sample is gone from the history and is a record
\* of the backup, the second one - exactly 504 hours old - is kept.
C26_Witness ==
  /\ op.name = "tick"
  /\ clock = StartClock + Retention + 10
  /\ Len(app.flow_samples["F1"]) = 2
  /\ app.flow_samples["F1"][1][1] = StartClock + 10
  /\ app.flow_samples["F1"][2][1] = clock
  /\ Co2RowsOf(disk, get_co2_backup_path, "F1") = 3
  /\ \E i \in DOMAIN Lines(disk, get_co2_backup_path) :
       /\ Lines(disk, get_co2_backup_path)[i].fermentador = "F1"
       /\ Lines(disk, get_co2_backup_path)[i].timestamp = strftime_YmdHMS(StartClock)

\* C27: the flow of every sample is 0 when FLOW_MAX_SCCM <= FLOW_MIN_SCCM;
\* otherwise it is flow_min + (c - 4) * (flow_max - flow_min) / 16 with c the
\* sample's current clamped to [4, 20] mA, so it lies in [flow_min, flow_max],
\* is flow_min for every current <= 4 mA and flow_max for every current
\* >= 20 mA.
C27_FlowInterpolation ==
  \A c \in Ferms : \A i \in DOMAIN app.flow_samples[c] :
    LET flow == app.flow_samples[c][i][2]
        cur == app.flow_samples[c][i][3]
        lo == app.FLOW_MIN_SCCM
        hi == app.FLOW_MAX_SCCM
        clamped == IF cur < 400 THEN 400 ELSE IF cur > 2000 THEN 2000 ELSE cur
    IN  IF hi <= lo THEN flow = 0
        ELSE /\ 16 * 100 * flow = FlowUnit * (16 * 100 * lo + (clamped - 400) * (hi - lo))
             /\ lo * FlowUnit <= flow /\ flow <= hi * FlowUnit
             /\ cur <= 400 => flow = lo * FlowUnit
             /\ cur >= 2000 => flow = hi * FlowUnit
\* With the range 10..50 sccm, F1 has a sample of 24 mA at 50 sccm and F2 one
\* of 8 mA at 20 sccm.
C27_Witness ==
  /\ app.FLOW_MIN_SCCM = 10 /\ app.FLOW_MAX_SCCM = 50
  /\ Len(app.flow_samples["F1"]) = 1
  /\ app.flow_samples["F1"][1][3] = 2400
  /\ app.flow_samples["F1"][1][2] = 50 * FlowUnit
  /\ Len(app.flow_samples["F2"]) = 1
  /\ app.flow_samples["F2"][1][3] = 800
  /\ app.flow_samples["F2"][1][2] = 20 * FlowUnit

\* C28: the status of every sample is classified from its unclamped current
\* (below 3.8 mA low range, above 20.5 mA high range, otherwise OK, exactly
\* 3.8 and exactly 20.5 being OK) while its flow uses the clamped current: a
\* sample below 4 mA has the flow flow_min and one above 20 mA flow_max.
C28_StatusFromRawCurrent ==
  \A c \in Ferms : \A i \in DOMAIN app.flow_samples[c] :
    LET flow == app.flow_samples[c][i][2]
        cur == app.flow_samples[c][i][3]
        volt == app.flow_samples[c][i][4]
        status == app.flow_samples[c][i][5]
    IN  /\ cur * SHUNT_OHMS[c] = volt
        /\ status = (IF cur < 380 THEN "Bajo rango"
                     ELSE IF cur > 2050 THEN "Alto rango" ELSE "OK")
        /\ app.FLOW_MAX_SCCM > app.FLOW_MIN_SCCM =>
              /\ cur < 400 => flow = app.FLOW_MIN_SCCM * FlowUnit
              /\ cur > 2000 => flow = app.FLOW_MAX_SCCM * FlowUnit
\* With the range 10..50 sccm, F1's sample of 3.79 mA has the status low
\* range and the flow 10 sccm.
C28_Witness ==
  /\ app.FLOW_MIN_SCCM = 10 /\ app.FLOW_MAX_SCCM = 50
  /\ Len(app.flow_samples["F1"]) = 1
  /\ app.flow_samples["F1"][1][3] = 379
  /\ app.flow_samples["F1"][1][5] = "Bajo rango"
  /\ app.flow_samples["F1"][1][2] = 10 * FlowUnit

\* ------------------------------------------------------------------------
\* Write failures: ticks of the simulator process in which at most one write
\* fails - of F1's row (any outcome of WriteOutcomes), of F2's row or of F1's
\* flow sample (the backup's directory cannot be created).
\* ------------------------------------------------------------------------
FaultEnvs ==
  { [Calm EXCEPT !.w["F1"] = w1] : w1 \in WriteOutcomes }
    \cup { [Calm EXCEPT !.w["F2"] = "backup_dir_fails"],
           [Calm EXCEPT !.wf["F1"] = "backup_dir_fails"] }

InitFault ==
  /\ ferm = [c \in Ferms |-> NewPanel]
  /\ clock = StartClock
  /\ dlg_data = EmptyCal
  /\ q_res = None
  /\ op = [name |-> "init", c |-> "-", pre |-> {}]
  /\ app = NewApp
  /\ disk = EmptyDisk

NextFault ==
  \/ TickWith(FlowTemps, FaultEnvs)
  \/ DoCsvStart("F1")
  \/ DoCo2CsvStart("F1")

SpecFault == InitFault /\ [][NextFault]_vars

\* ------------------------------------------------------------------------
\* Write failures: properties
\* ------------------------------------------------------------------------
\* The step has added one row of channel c to the temperature file at path.
RowAdded(path, c) ==
  RowsOf(Lines(disk', path), c) = RowsOf(Lines(disk, path), c) + 1
\* The step has added one record of channel c to the CO2 file at path.
Co2RowAdded(path, c) ==
  Co2RowsOf(disk', path, c) = Co2RowsOf(disk, path, c) + 1
\* The step's tick has run to its end: update_process of every panel,
\* _flow_tick, and the scheduling of the next tick.
TickCompleted ==
  /\ app'.ran = Ferms
  /\ app'.flow_ran
  /\ \A c \in Ferms : DueBefore(c) => Rescheduled(c)
  /\ app'.tick_job

\* C22 as stated: a failure while writing to a sink during a tick does not
\* halt the control loop - the failing tick still writes the other sink,
\* still processes all remaining channels and the flow sampling, and the next
\* tick is still scheduled.
C22_WriteFailureContained ==
  [][TickRan =>
       /\ TickCompleted
       /\ \A c \in Ferms :
            /\ app'.met.w[c] = "csv_open_fails" => RowAdded(get_backup_path, c)
            /\ app'.met.w[c] \in {"backup_open_fails", "backup_dir_fails"}
                 /\ ferm[c].csv_running => RowAdded(_csv_path(c), c)
            /\ DueBefore(c) /\ app.co2_csv_running[c]
                 /\ app'.met.wf[c] = "backup_dir_fails" =>
                 Co2RowAdded(_co2_csv_path(c), c)
    ]_vars

\* C23 as stated: if processing one channel raises a failure during a tick,
\* the other channels are still processed in that tick and the next tick is
\* scheduled.
C23_PerChannelIsolation ==
  [][TickRan =>
       \A c \in app'.ran :
         app'.met.w[c] = "backup_dir_fails" =>
           /\ app'.ran = Ferms
           /\ app'.flow_ran
           /\ app'.tick_job
    ]_vars

\* What holds of the write failures the code catches (open() of either file
\* failing): the tick runs to its end and the other sink gets its row.
CaughtFailuresContained ==
  [][TickRan /\ (\A c \in Ferms : app'.met.w[c] # "backup_dir_fails"
                                  /\ app'.met.wf[c] # "backup_dir_fails") =>
       /\ TickCompleted
       /\ \A c \in Ferms :
            /\ app'.met.w[c] = "csv_open_fails" => RowAdded(get_backup_path, c)
            /\ app'.met.w[c] = "backup_open_fails" /\ ferm[c].csv_running =>
                 RowAdded(_csv_path(c), c)
    ]_vars

\* ------------------------------------------------------------------------
\* The hardware layer: a process started without SIMULADOR whose GPIO import
\* succeeded, with sensors that may fail and a bus that may raise.
\* ------------------------------------------------------------------------
\* The sensors read 21.00 C when they can be read.
HwTemps == [c \in Ferms |-> {2100}]
\* The call of F1's update_process that raises on the bus (0: none).
BusFaults == {0, 2}
HwEnvs ==
  { [Calm EXCEPT !.read_fails = rf, !.bus["F1"] = b] :
      rf \in {{}, {"F1"}, Ferms}, b \in BusFaults }

\* A handler of panel c outside the tick that issues the commands cmds, of
\* which any one may raise on the bus.
RanOnBus(name, c, newferm, cmds) ==
  \E fail_at \in 0..Len(cmds) :
    RanWith(name, c, newferm,
            [app EXCEPT !.hw = gpio_cmds([app.hw EXCEPT !.bus_calls = 0],
                                         c, cmds, fail_at)],
            disk)
\* "Cerrar todo": cerrar_todo calls _apply_relays, two relay calls.
HwCerrarTodo(c) ==
  RanOnBus("cerrar_todo", c, [ferm EXCEPT ![c] = cerrar_todo(@)],
           _apply_relays_cmds(cerrar_todo(ferm[c])))
\* The manual pump button: _apply_nutricion_state calls the stepper when the
\* pump's state changes.
HwToggleManualNut(c) ==
  RanOnBus("toggle_manual_nut", c,
           [ferm EXCEPT ![c] = toggle_manual_nut(@, clock)],
           toggle_manual_nut_cmds(ferm[c], clock))

InitHw ==
  /\ ferm = [c \in Ferms |-> NewPanel]
  /\ clock = StartClock
  /\ dlg_data = EmptyCal
  /\ q_res = None
  /\ op = [name |-> "init", c |-> "-", pre |-> {}]
  /\ app = [NewApp EXCEPT !.hw.sim = FALSE, !.hw.sim_gpio = FALSE,
                          !.flow_sample_period = [c \in Ferms |-> 10]]
  /\ disk = EmptyDisk

NextHw ==
  \/ TickWith(HwTemps, HwEnvs)
  \/ HwCerrarTodo("F1")
  \/ HwToggleManualNut("F1")

SpecHw == InitHw /\ [][NextHw]_vars

\* ------------------------------------------------------------------------
\* The hardware layer: properties
\* ------------------------------------------------------------------------
\* Every panel whose temperature read failed in the step's tick shows 20.00 C.
TempSubstituted ==
  [][TickRan => \A c \in app'.met.read_fails : ferm'[c].t = 2000]_vars
\* Every failed read of a run of failed reads is logged.
EveryFailureLogged == app.hw.temp_logs = app.hw.temp_fails

\* C29 as stated: when a temperature read fails the core substitutes 20.0
\* degrees C, and over any run of consecutive failed reads the degradation is
\* logged exactly once (on the first failure of the run), logging being
\* re-armed only by the next successful read.
C29_FallbackLoggedOnce ==
  [][TickRan =>
       /\ \A c \in app'.met.read_fails : ferm'[c].t = 2000
       /\ app'.hw.temp_fails >= 1 => app'.hw.temp_logs = 1
    ]_vars

\* C30: once a relay or pump call has failed on the bus, the actuator
\* subsystem is in simulator mode for the rest of the run - every later
\* handler's relay and pump calls reach the bus zero times and leave the
\* simulator mode on - and the fallback has been logged once.
C30_StickyFallback ==
  [][/\ app'.hw.gpio_logs >= 1 => app'.hw.sim_gpio /\ app'.hw.gpio_logs = 1
     /\ app.hw.gpio_logs >= 1 =>
          /\ app'.hw.bus_calls = 0
          /\ app'.hw.gpio_logs = app.hw.gpio_logs
    ]_vars
\* After a fallback a tick in which no call raises - four relay calls for
\* each panel - has run without reaching the bus.
C30_Witness ==
  /\ op.name = "tick"
  /\ app.met.bus = [c \in Ferms |-> 0]
  /\ app.ran = Ferms
  /\ \A c \in Ferms : ~ferm[c].manual_mode
  /\ app.hw.gpio_logs = 1
  /\ app.hw.sim_gpio
  /\ ~app.hw.sim
  /\ app.hw.bus_calls = 0

\* ------------------------------------------------------------------------
\* Operator edits: F1's setpoint, band and pump frequency entries, between
\* the operator's other buttons.
\* ------------------------------------------------------------------------
\* What the operator may have typed: nothing, a text float() rejects, or a
\* number (a decimal comma is read as a point).
EditEntries ==
  {Entry("empty", 0), Entry("text", 0), Entry("num", -10), Entry("num", 0),
   Entry("num", 2), Entry("num", 5), Entry("num", 2050)}
\* An "Aplicar" button: the handler runs on the entry raw, which the history
\* variable keeps.
Edit(name, c, raw, newf) ==
  /\ ferm' = [ferm EXCEPT ![c] = newf]
  /\ op' = [name |-> name, c |-> c, pre |-> {raw}]
  /\ app' = [app EXCEPT !.stopped = FALSE]
  /\ UNCHANGED <<clock, dlg_data, q_res, disk>>
EditSp(c) == \E raw \in EditEntries : Edit("apply_sp", c, raw, apply_sp(ferm[c], raw))
EditBand(c) ==
  \E raw \in EditEntries : Edit("apply_band", c, raw, apply_band(ferm[c], raw))
EditFreq(c) ==
  \E raw \in EditEntries : Edit("apply_freq", c, raw, apply_freq(ferm[c], raw))

NextEdit ==
  \/ EditSp("F1")
  \/ EditBand("F1")
  \/ EditFreq("F1")
  \/ ToggleManualMode("F1")
  \/ DoForzarFrio("F1")
  \/ DoToggleManualNut("F1")

SpecEdit == Init /\ [][NextEdit]_vars

\* C33: an invalid edit of setpoint, band or pump frequency - empty, not a
\* number, or below the field's minimum (band < 0.05, frequency < 0) - leaves
\* the channel's setpoint, band, frequency and all other state unchanged; a
\* valid edit changes the edited field only.
C33_InvalidEditRejected ==
  [][op'.name \in {"apply_sp", "apply_band", "apply_freq"} =>
       \A raw \in op'.pre :
         LET invalid == \/ raw.kind \in {"empty", "text"}
                        \/ op'.name = "apply_band" /\ raw.val < 5
                        \/ op'.name = "apply_freq" /\ raw.val < 0
             c == op'.c
         IN  /\ app' = [app EXCEPT !.stopped = FALSE] /\ disk' = disk
             /\ IF invalid THEN ferm' = ferm
                ELSE ferm' = [ferm EXCEPT ![c] =
                       IF op'.name = "apply_sp" THEN [@ EXCEPT !.sp = raw.val]
                       ELSE IF op'.name = "apply_band" THEN [@ EXCEPT !.band = raw.val]
                       ELSE [@ EXCEPT !.freq_nut = raw.val]]
    ]_vars
\* A band of 0.02 C was rejected after a band of exactly 0.05 C was accepted,
\* in a channel forced cold in manual override.
C33_Witness ==
  /\ op = [name |-> "apply_band", c |-> "F1", pre |-> {Entry("num", 2)}]
  /\ ferm["F1"].band = 5
  /\ ferm["F1"].freq_nut = 0
  /\ ferm["F1"].manual_mode /\ ferm["F1"].cold_in

\* ------------------------------------------------------------------------
\* The global stop-all and the ticks after it
\* ------------------------------------------------------------------------
\* After the global stop-all no tick switches a valve on.
ValvesStayClosed ==
  [][TickRan /\ app.stopped =>
       \A c \in Ferms : ~ferm'[c].cold_in /\ ~ferm'[c].hot_in]_vars

\* C34 as stated: after the global stop-all, as long as no operator action
\* follows, no later tick turns on the cold actuator, the hot actuator or the
\* dosing pump of any channel, whatever the temperatures and the calendars
\* contain.
C34_StoppedStaysOff ==
  [][TickRan /\ app.stopped =>
       \A c \in Ferms :
         /\ ~ferm'[c].cold_in
         /\ ~ferm'[c].hot_in
         /\ ~ferm'[c].nut_led_on
    ]_vars

\* ------------------------------------------------------------------------
\* Stored calendar times
\* ------------------------------------------------------------------------
\* The zero-padded five-character form HH:MM.
IsPaddedHM(s) ==
  /\ Len(s) = 5
  /\ s[3] = Colon
  /\ \A i \in {1, 2, 4, 5} : s[i] # Colon

\* C35 as stated: every event stored in a calendar by the editor has a time
\* in the zero-padded five-character form HH:MM.
C35_TimesZeroPadded ==
  \A d \in Dates : \A i \in DOMAIN dlg_data[d] : IsPaddedHM(dlg_data[d][i].time)

\* What the stored form is for: an event stored for 09:00 applies at 14:00.
\* With the text "9:00" in the calendar the lookup at 14:00 skips it.
UnpaddedEventSkipped ==
  /\ op.name = "lookup"
  /\ clock = 14 * 3600
  /\ dlg_data[0] = <<Event(Unpadded(9, 0), 2200)>>
  /\ q_res = Some(None)

\* ------------------------------------------------------------------------
\* Calendar import
\* ------------------------------------------------------------------------
\* A cell of an imported row as Python sees it: None (no such column or no
\* such field), a str (csv.DictReader; a text cell of a workbook) or a float
\* (a numeric cell of a workbook read by pandas).  The text of a date cell is
\* the pair <<format, day>> it was written in, the text of a time cell is its
\* characters, the text of a value cell is an entry as typed; <<>> is "".
NoneCell == [py |-> "None"]
StrCell(text) == [py |-> "str", text |-> text]
FloatCell(val) == [py |-> "float", val |-> val]

\* bool(x)
Truthy(cell) ==
  IF cell.py = "None" THEN FALSE
  ELSE IF cell.py = "str" THEN cell.text # <<>>
  ELSE cell.val # 0

\* a or b or c
RECURSIVE PyOr(_)
PyOr(cells) ==
  IF Len(cells) = 1 THEN cells[1]
  ELSE IF Truthy(Head(cells)) THEN Head(cells)
  ELSE PyOr(Tail(cells))

\* row.get(key)
row_get(row, key) == IF key \in DOMAIN row THEN row[key] ELSE NoneCell

\* The formats strptime is tried with.
DateFormats == {"%Y-%m-%d", "%d/%m/%Y", "%d-%m-%Y", "%Y/%m/%d"}
\* _normalize_date(str(date_raw)) for a str cell: Some(date) or None.
_normalize_date(text) ==
  IF text = <<>> THEN None
  ELSE IF text[1] \in DateFormats /\ text[2] \in Dates THEN Some(text[2])
  ELSE None

\* value_type(val_raw) with value_type=float: Some(number), None if it raises.
py_float(cell) ==
  IF cell.py = "float" THEN Some(cell.val)
  ELSE IF cell.py = "str" /\ cell.text # <<>> /\ cell.text.kind = "num"
       THEN Some(cell.text.val)
  ELSE None

\* One pass of the loop of _events_from_rows: events after this row.
_events_from_row(events, row) ==
  LET date_raw == PyOr(<<row_get(row, "date"), row_get(row, "fecha"),
                         row_get(row, "dia"), row_get(row, "d")>>)
      time_raw == PyOr(<<row_get(row, "time"), row_get(row, "hora"),
                         row_get(row, "t")>>)
      val_raw == PyOr(<<row_get(row, "value"), row_get(row, "valor"),
                        row_get(row, "v")>>)
  IN  IF ~Truthy(date_raw) \/ ~Truthy(time_raw) \/ val_raw.py = "None"
        THEN events
      ELSE IF _normalize_date(date_raw.text) = None THEN events
      ELSE IF ~hhmm_ok(time_raw.text) THEN events
      ELSE IF py_float(val_raw) = None THEN events
      ELSE [events EXCEPT ![_normalize_date(date_raw.text)[1]] =
              Append(@, Event(time_raw.text, py_float(val_raw)[1]))]

RECURSIVE _events_from_rows(_)
_events_from_rows(rows) ==
  IF rows = <<>> THEN EmptyCal
  ELSE _events_from_row(_events_from_rows(SubSeq(rows, 1, Len(rows) - 1)),
                        rows[Len(rows)])

\* DateCalendarDialog.import_file with a file that loads as rows: the
\* imported events replace the dialog's data unless there are none.
import_file(data, rows) ==
  LET imported == _events_from_rows(rows)
  IN  IF imported = EmptyCal THEN data ELSE imported

\* Rows of the files an operator may import.
MaxRows == 2
\* A row every check accepts, and rows that differ from it in one cell.
GoodRow ==
  [date |-> StrCell(<<"%Y-%m-%d", 0>>), time |-> StrCell(Padded(8, 0)),
   value |-> StrCell(Entry("num", 2000))]
ImportRows ==
  { GoodRow,
    [GoodRow EXCEPT !.date = StrCell(<<"%d/%m/%Y", 1>>)],
    [GoodRow EXCEPT !.date = StrCell(<<"%m.%d.%Y", 0>>)],
    [GoodRow EXCEPT !.time = StrCell(Padded(24, 0))],
    [GoodRow EXCEPT !.time = StrCell(<<>>)],
    [GoodRow EXCEPT !.value = StrCell(Entry("num", 0))],
    [GoodRow EXCEPT !.value = StrCell(Entry("text", 0))],
    [GoodRow EXCEPT !.value = FloatCell(2500)],
    [GoodRow EXCEPT !.value = FloatCell(0)],
    [GoodRow EXCEPT !.value = NoneCell] }
ImportFiles == UNION { [1..n -> ImportRows] : n \in 0..MaxRows }

DoImportFile ==
  \E rows \in ImportFiles :
    /\ dlg_data' = import_file(dlg_data, rows)
    /\ q_res' = None
    /\ op' = [name |-> "import_file", c |-> "-", pre |-> {rows}]
    /\ UNCHANGED <<ferm, clock, app, disk>>

NextImport == DoImportFile

SpecImport == InitCal /\ [][NextImport]_vars

\* The rows the import is to keep: the date parses, the time is a text
\* hhmm_ok accepts, the value is a number or a text that reads as one.
IsNumeric(cell) ==
  \/ cell.py = "float"
  \/ cell.py = "str" /\ cell.text # <<>> /\ cell.text.kind = "num"
NumberOf(cell) == IF cell.py = "float" THEN cell.val ELSE cell.text.val
RowValid(row) ==
  /\ row.date.py = "str" /\ _normalize_date(row.date.text) # None
  /\ row.time.py = "str" /\ hhmm_ok(row.time.text)
  /\ IsNumeric(row.value)
RECURSIVE ValidEvents(_, _)
ValidEvents(rows, d) ==
  IF rows = <<>> THEN <<>>
  ELSE LET row == Head(rows)
       IN  (IF RowValid(row) /\ _normalize_date(row.date.text) = Some(d)
              THEN <<Event(row.time.text, NumberOf(row.value))>> ELSE <<>>)
           \o ValidEvents(Tail(rows), d)

\* C32 as stated: calendar import keeps exactly the valid rows - every row
\* whose date parses, whose time is within 00:00-23:59 and whose value is
\* numeric (the value 0 included) yields one event under its date, every
\* other row yields none, and an invalid row neither aborts the import nor
\* affects the other rows.
C32_ImportKeepsValidRows ==
  [][op'.name = "import_file" =>
       \E rows \in op'.pre :
         LET kept == [d \in Dates |-> ValidEvents(rows, d)]
         IN  dlg_data' = IF kept = EmptyCal THEN dlg_data ELSE kept]_vars

\* The same for the files without a numeric cell holding 0.
ImportKeepsValidRowsButZero ==
  [][op'.name = "import_file" =>
       \E rows \in op'.pre :
         (\A i \in DOMAIN rows : rows[i].value # FloatCell(0)) =>
           LET kept == [d \in Dates |-> ValidEvents(rows, d)]
           IN  dlg_data' = IF kept = EmptyCal THEN dlg_data ELSE kept]_vars

\* ------------------------------------------------------------------------
\* Calendars under the tick: F1 has a setpoint calendar, a dosing calendar,
\* a setpoint entry and the manual-override checkbox; the clock advances.
\* ------------------------------------------------------------------------
SchedTemps == [c \in Ferms |-> {2000}]

NextSched ==
  \/ Pass(ControlInstants)
  \/ Tick(SchedTemps)
  \/ DoEditCalSp("F1")
  \/ DoEditCalNut("F1")
  \/ DoApplySp("F1")
  \/ ToggleManualMode("F1")

SpecSched == Init /\ [][NextSched]_vars

\* C36: for a channel not in manual override, whenever today's setpoint
\* calendar has an applicable event the setpoint after a tick is the value of
\* a latest applicable event, whatever the operator applied before, and when
\* no event applies the tick leaves the setpoint unchanged.
C36_CalendarSetsSetpoint ==
  [][TickRan =>
       \A c \in Ferms :
         ~ferm[c].manual_mode =>
           LET flist == ferm[c].cal_sp[ymd(clock)]
               cand == Applicable(flist)
           IN  IF cand = {} THEN ferm'[c].sp = ferm[c].sp
               ELSE \E i \in cand :
                      /\ \A j \in cand : str_le(flist[j].time, flist[i].time)
                      /\ ferm'[c].sp = flist[i].value
    ]_vars
\* A tick at 09:00 in automatic mode has set F1's setpoint to the calendar's
\* 22.0, a value no setpoint entry holds.
C36_Witness ==
  /\ op.name = "tick"
  /\ ~ferm["F1"].manual_mode
  /\ clock >= 9 * 3600
  /\ ferm["F1"].cal_sp[0] = <<Event(Padded(9, 0), 2200)>>
  /\ ferm["F1"].sp = 2200

\* C37: while a channel is in manual override a tick never changes its
\* setpoint, whatever the setpoint calendar contains, whereas the dosing
\* calendar is looked at all the same: on the minute boundary the positive
\* values of the events of now's minute set the dosing deadline.
C37_ManualKeepsSetpoint ==
  [][TickRan =>
       \A c \in Ferms :
         ferm[c].manual_mode =>
           /\ ferm'[c].sp = ferm[c].sp
           /\ MinuteBoundary(ferm[c]) =>
                LET total == SumMatching(ferm[c].cal_nut[ymd(clock)],
                                         strftime_HM(clock), TRUE)
                IN  ferm'[c].nut_running_until =
                      (IF total > 0 THEN Some(clock + total)
                       ELSE AfterExpiry(ferm[c].nut_running_until))
    ]_vars
\* A tick at 09:00:00 in manual override has left F1's setpoint at a value
\* other than the calendar's 22.0 and has fired the dosing calendar.
C37_Witness ==
  /\ op.name = "tick"
  /\ ferm["F1"].manual_mode
  /\ clock = 9 * 3600
  /\ ferm["F1"].cal_sp[0] = <<Event(Padded(9, 0), 2200)>>
  /\ ferm["F1"].sp # 2200
  /\ ferm["F1"].nut_running_until = Some(9 * 3600 + 50)
  /\ ferm["F1"].fire_min = strftime_YmdHM(clock)

\* ------------------------------------------------------------------------
\* The operator's handlers in hardware mode: every handler issues its relay
\* and stepper commands, any one of which may raise on the bus
\* ------------------------------------------------------------------------
HwForzarFrio(c) ==
  RanOnBus("forzar_frio", c, [ferm EXCEPT ![c] = forzar_frio(@)],
           forzar_cmds(ferm[c], forzar_frio(ferm[c])))
HwForzarCaliente(c) ==
  RanOnBus("forzar_caliente", c, [ferm EXCEPT ![c] = forzar_caliente(@)],
           forzar_cmds(ferm[c], forzar_caliente(ferm[c])))

\* for f in self.ferms: f.stop_all(), from st = [ferm, app]; bus[c] is the
\* call of panel c's stop_all that raises on the bus (0: none).
RECURSIVE StopPanels(_, _, _)
StopPanels(order, st, bus) ==
  IF order = <<>> THEN st
  ELSE LET c == Head(order)
       IN  The({ StopPanels(Tail(order), st1, bus) :
                   st1 \in { [ferm |-> [st.ferm EXCEPT ![c] = stop_all(@)],
                              app |-> [st.app EXCEPT !.hw =
                                         gpio_cmds(@, c, stop_all_cmds(st.ferm[c]),
                                                   bus[c])]] } })

\* What the release of the hardware handles finds: the actuators and pumps
\* that are on, by flag and by output.
AtRelease(st) ==
  [ on |-> {a \in Active(st.ferm) : a[2] \in {"cold", "hot", "pump"}},
    out |-> st.app.hw.out ]

\* A plausible bug: the handles are released before the panels are stopped.
on_close_release_first(st, bus) ==
  LET st1 == [st EXCEPT !.app.closing = TRUE, !.app.tick_job = FALSE,
                        !.app.released = Some(AtRelease(st))]
  IN  StopPanels(FermOrder, st1, bus)
\* App.on_close: the tick is cancelled, every panel is stopped, then the
\* analog readers are closed and the GPIO is cleaned up.
on_close(st, bus) ==
  LET st1 == [st EXCEPT !.app.closing = TRUE, !.app.tick_job = FALSE]
  IN  The({ [st2 EXCEPT !.app.released = Some(AtRelease(st2))] :
              st2 \in {StopPanels(FermOrder, st1, bus)} })

\* The calls of F1's stop_all that may raise.
StopFaults == {[c \in Ferms |-> IF c = "F1" THEN b ELSE 0] : b \in 0..1}

\* The "Cerrar todo" button of the window.
HwCerrarTodoGlobal ==
  \E bus \in StopFaults :
    \E st \in { StopPanels(FermOrder,
                           [ferm |-> ferm,
                            app |-> [app EXCEPT !.hw.bus_calls = 0]], bus) } :
      RanWith("cerrar_todo_global", "all", st.ferm, st.app, disk)

\* The window is closed.
OnClose ==
  \E bus \in StopFaults :
    \E st \in { on_close([ferm |-> ferm,
                          app |-> [app EXCEPT !.hw.bus_calls = 0]], bus) } :
      RanWith("on_close", "all", st.ferm, st.app, disk)

\* F1 is too warm. The clock starts at 09:00:00 and moves to 09:00:30.
ActTemps == [c \in Ferms |-> IF c = "F1" THEN {2100} ELSE {2000}]
ActInstants == {9 * 3600, 9 * 3600 + 30}
InitAct ==
  /\ ferm = [c \in Ferms |-> NewPanel]
  /\ clock = 9 * 3600
  /\ dlg_data = EmptyCal
  /\ q_res = None
  /\ op = [name |-> "init", c |-> "-", pre |-> {}]
  /\ app = [NewApp EXCEPT !.hw.sim = FALSE, !.hw.sim_gpio = FALSE,
                          !.flow_sample_period = [c \in Ferms |-> 10]]
  /\ disk = EmptyDisk
\* edit_cal_nut accepted with one event of 30 s at 09:00 of day 0.
ActEditCalNut(c) ==
  /\ ferm[c].cal_nut = EmptyCal
  /\ Ran("edit_cal_nut", c,
         [ferm EXCEPT ![c] = [@ EXCEPT !.cal_nut =
                                OnDay0(<<Event(Padded(9, 0), 30)>>)]])

\* Forcing: F1 with the manual-override checkbox and the three buttons.
NextForce ==
  \/ Tick(ActTemps)
  \/ ToggleManualMode("F1")
  \/ HwForzarFrio("F1")
  \/ HwForzarCaliente("F1")
  \/ HwCerrarTodo("F1")

SpecForce == InitAct /\ [][NextForce]_vars

\* Valves and pump: F1 with a dosing calendar and the manual pump button.
NextAct ==
  \/ Tick(ActTemps)
  \/ Pass(ActInstants)
  \/ HwForzarFrio("F1")
  \/ HwCerrarTodo("F1")
  \/ HwToggleManualNut("F1")
  \/ ActEditCalNut("F1")
  \/ HwCerrarTodoGlobal

SpecAct == InitAct /\ [][NextAct]_vars

\* Shutdown. Once the window is closed no handler runs; _tick tests _closing
\* itself.
NextClose ==
  \/ Tick(ActTemps)
  \/ ~app.closing /\ Pass(ActInstants)
  \/ ~app.closing /\ ToggleManualMode("F1")
  \/ ~app.closing /\ HwForzarCaliente("F1")
  \/ ~app.closing /\ HwToggleManualNut("F1")
  \/ ~app.closing /\ OnClose

SpecClose == InitAct /\ [][NextClose]_vars

\* ------------------------------------------------------------------------
\* Actuators: properties
\* ------------------------------------------------------------------------
\* C38: force-cold and force-hot requested while the channel is not in manual
\* override leave the actuator flags and the relay outputs unchanged - no
\* call reaches the bus - whereas close-all turns both actuators off in either
\* mode, and both relays off when its calls reach the bus.
C38_ForceNeedsManual ==
  [][/\ (op'.name \in {"forzar_frio", "forzar_caliente"}
           /\ ~ferm[op'.c].manual_mode) =>
          /\ ferm' = ferm
          /\ app'.hw.out = app.hw.out
          /\ app'.hw.bus_calls = 0
          /\ app'.hw.gpio_logs = app.hw.gpio_logs
     /\ op'.name = "cerrar_todo" =>
          /\ ~ferm'[op'.c].cold_in /\ ~ferm'[op'.c].hot_in
          /\ ferm'[op'.c].manual_mode = ferm[op'.c].manual_mode
          /\ app'.hw.bus_calls = 2 =>
               ~app'.hw.out[op'.c].cold /\ ~app'.hw.out[op'.c].hot
    ]_vars
\* Force-hot was requested in automatic mode on a channel that is cooling:
\* the cold relay is still on, the hot relay off, nothing reached the bus.
C38_Witness ==
  /\ op.name = "forzar_caliente"
  /\ ~ferm["F1"].manual_mode
  /\ ferm["F1"].cold_in /\ ~ferm["F1"].hot_in
  /\ app.hw.out["F1"].cold /\ ~app.hw.out["F1"].hot
  /\ ~app.hw.sim_gpio
  /\ app.hw.bus_calls = 0
\* Close-all in automatic mode has switched off a cooling channel's relay.
CerrarTodoInAuto ==
  /\ op.name = "cerrar_todo"
  /\ ~ferm["F1"].manual_mode
  /\ <<"F1", "cold">> \in op.pre
  /\ ~app.hw.out["F1"].cold
  /\ app.hw.bus_calls = 2

\* The outputs of panel c are as its flags say.
Mirrors(c) ==
  /\ app.hw.out[c].cold = ferm[c].cold_in
  /\ app.hw.out[c].hot = ferm[c].hot_in
  /\ app.hw.out[c].pump = ferm[c].nut_led_on
\* The same in every state, manual override included.
AlwaysMirrors == app.hw.gpio_logs = 0 => \A c \in Ferms : Mirrors(c)

\* C39: as long as no actuator call has failed, after every tick in automatic
\* mode and after every force, close-all, stop-all or manual pump toggle the
\* last command sent to each relay of the channel equals the corresponding
\* cold or hot flag and the pump is started iff the pump-active flag is true.
C39_OutputsMirrorFlags ==
  app.hw.gpio_logs = 0 =>
    \A c \in Ferms :
      (\/ op.name = "tick" /\ ~ferm[c].manual_mode
       \/ /\ op.name \in {"forzar_frio", "forzar_caliente", "cerrar_todo",
                          "cerrar_todo_global", "toggle_manual_nut"}
          /\ op.c \in {c, "all"})
      => Mirrors(c)
\* The tick at 09:00:00 in automatic mode has fired the dosing calendar and
\* switched the cooling on: pump started, cold relay on, hot relay off.
C39_Witness ==
  /\ op.name = "tick"
  /\ ~app.hw.sim_gpio /\ app.hw.gpio_logs = 0
  /\ ~ferm["F1"].manual_mode
  /\ ferm["F1"].nut_running_until = Some(9 * 3600 + 30)
  /\ ferm["F1"].nut_led_on /\ app.hw.out["F1"].pump
  /\ ferm["F1"].cold_in /\ app.hw.out["F1"].cold
  /\ ~app.hw.out["F1"].hot
\* The global stop-all has stopped a pump and closed a valve that were on.
StopAllSwitchedOff ==
  /\ op.name = "cerrar_todo_global"
  /\ {<<"F1", "pump">>, <<"F1", "cold">>} \subseteq op.pre
  /\ app.hw.gpio_logs = 0 /\ ~app.hw.sim_gpio
  /\ ~app.hw.out["F1"].pump /\ ~app.hw.out["F1"].cold
\* A failed call has left an output at odds with its flag.
OutputStuckAfterFailure ==
  /\ app.hw.gpio_logs = 1
  /\ ~Mirrors("F1")

\* ------------------------------------------------------------------------
\* Shutdown: properties
\* ------------------------------------------------------------------------
\* C31: in the shutdown sequence every channel's cold and hot actuators are
\* closed and its pump stopped before any hardware handle is released - at
\* the release no flag is on and, unless a call has failed on the bus, no
\* output is on - and no control tick runs after shutdown has begun.
C31_ShutdownOrder ==
  [][/\ op'.name = "on_close" =>
          /\ app'.closing /\ ~app'.tick_job
          /\ app'.released # None
          /\ app'.released[1].on = {}
          /\ app'.hw.gpio_logs = 0 =>
               \A c \in Ferms :
                 app'.released[1].out[c] =
                   [cold |-> FALSE, hot |-> FALSE, pump |-> FALSE]
     /\ app.closing => ~TickRan /\ ferm' = ferm /\ app'.hw = app.hw
    ]_vars
\* The window was closed while F1 was heating by force with its pump running
\* and F2 idle: the handles were released with every output off.
C31_Witness ==
  /\ op.name = "on_close"
  /\ {<<"F1", "hot">>, <<"F1", "pump">>} \subseteq op.pre
  /\ ~app.hw.sim_gpio
  /\ app.released # None
  /\ app.hw.out["F1"] = [cold |-> FALSE, hot |-> FALSE, pump |-> FALSE]
  /\ ~ferm["F1"].hot_in /\ ~ferm["F1"].nut_led_on
  /\ ~app.tick_job
\* A call of stop_all failed on the bus: the handles were released with a
\* relay still on, its flag off.
ReleasedWithRelayOn ==
  /\ op.name = "on_close"
  /\ app.hw.gpio_logs = 1
  /\ app.released # None
  /\ app.released[1].on = {}
  /\ \E c \in Ferms : app.released[1].out[c].cold \/ app.released[1].out[c].hot

\* ------------------------------------------------------------------------
\* A dose ends: ticks keep coming and time advances
\* ------------------------------------------------------------------------
\* The files cannot be opened for writing, so a tick leaves the disk as it is
\* (the failures are caught inside the tick) and ticks can go on for ever.
ReadOnlyDisk ==
  [Calm EXCEPT !.w = [c \in Ferms |-> "backup_open_fails"],
               !.wf = [c \in Ferms |-> "backup_open_fails"]]
\* An instant after every deadline a calendar of NutCals can set.
LiveEnd == StartClock + MaxElapsed + 4 * SecPerMin
LiveInstants == ControlInstants \cup {LiveEnd}
LiveTick == TickWith(DoseTemps, {ReadOnlyDisk})
LivePass == Pass(LiveInstants)
\* The manual pump button, pressed while the pump history is short.
LiveToggleManualNut(c) ==
  /\ Len(app.nut_samples[c]) < MaxTicks
  /\ DoToggleManualNut(c)

NextLive ==
  \/ LiveTick
  \/ LivePass
  \/ DoEditCalNut("F1")
  \/ LiveToggleManualNut("F1")

\* _tick schedules its successor a second ahead whenever it returns, and the
\* wall clock advances: both keep happening. Here a tick never raises, so
\* LiveTick is enabled in every state and WF_vars(LiveTick) says that ticks
\* occur again and again, which is written without ENABLED.
SpecLive ==
  /\ Init /\ [][NextLive]_vars
  /\ []<><<TickRan>>_vars
  /\ WF_vars(LivePass)

\* C40: a calendar dose always ends: under continued ticking with advancing
\* time a dosing deadline that is set is eventually cleared, with the
\* pump-active flag false unless the manual pump toggle is on; and a tick
\* whose time is >= the deadline, with no dosing event firing in it, clears
\* the deadline and, the manual toggle being off, turns the pump-active flag
\* off.
C40_DoseEnds ==
  /\ \A c \in Ferms :
       (ferm[c].nut_running_until # None)
         ~> (/\ ferm[c].nut_running_until = None
             /\ (ferm[c].nut_led_on => ferm[c].manual_nut_on))
  /\ [][TickRan =>
          \A c \in Ferms :
            (/\ ferm[c].nut_running_until # None
             /\ clock >= ferm[c].nut_running_until[1]
             /\ <<ferm'[c].fire_min, ferm'[c].fire_n>>
                  = <<ferm[c].fire_min, ferm[c].fire_n>>)
            => /\ ferm'[c].nut_running_until = None
               /\ ~ferm[c].manual_nut_on => ~ferm'[c].nut_led_on
     ]_vars
\* The dose of 09:00 (30 s + 20 s) has been ended by the tick at 09:01:00:
\* deadline cleared, pump off, the off transition recorded.
C40_Witness ==
  /\ op.name = "tick"
  /\ clock = 9 * 3600 + 60
  /\ <<"F1", "deadline">> \in op.pre
  /\ <<"F1", "pump">> \in op.pre
  /\ ferm["F1"].cal_nut[0] = <<Event(Padded(9, 0), 30), Event(Padded(9, 0), 20)>>
  /\ ~ferm["F1"].manual_nut_on
  /\ ferm["F1"].nut_running_until = None
  /\ ~ferm["F1"].nut_led_on

\* C21 as stated: export of a per-channel sink (temperature or CO2) is
\* rejected while that sink is recording - no file is written and the sink's
\* state and file are unchanged - and an export made while the sink is idle
\* or paused leaves the source file as it was and an exported file whose
\* content equals the source file's content.
C21_ExportCopies ==
  [][/\ op'.name = "csv_export" =>
          LET src == _csv_path(op'.c)
          IN  /\ ferm' = ferm
              /\ TempSinkState(ferm[op'.c]) = "recording" => disk' = disk
              /\ disk' # disk =>
                    /\ disk'[src] = disk[src]
                    /\ \E dst_dir \in ExportDirs \ {""} :
                         disk'[Join(dst_dir, Basename(src))] = disk[src]
     /\ op'.name = "co2_csv_export" =>
          LET src == _co2_csv_path(op'.c)
          IN  /\ app' = app
              /\ Co2SinkState(app, op'.c) = "recording" => disk' = disk
              /\ disk' # disk =>
                    /\ disk'[src] = disk[src]
                    /\ \E dst_dir \in ExportDirs \ {""} :
                         disk'[Join(dst_dir, Basename(src))] = disk[src]
    ]_vars

====
